---- MODULE Spec2Model ----
(* The pigeon VM: a PEG compiled to a flat instruction vector and run by a   *)
(* five-stack virtual machine.  The model follows the VM runtime             *)
(* (src/unnamed/part_000, "staticCode") and the per-expression compilation   *)
(* schemes of the generator tests (src/vm/matchers.go, the encode helpers).  *)
EXTENDS Integers, Sequences, FiniteSets, TLC

VARIABLES vm, hist, twin, pair

vars == <<vm, hist, twin, pair>>

(* ------------------------------------------------------------------------ *)
(* Bounds of the model.                                                      *)
(* ------------------------------------------------------------------------ *)

\* Longest input, in bytes.
MaxLen == 3

\* The longest input of each of two parses that share a program.
MaxLenShared == 1

\* The bytes inputs are made of: 'a', 'b', and the lead and continuation
\* bytes of the two-byte encoding of U+00E9.
Bytes == {97, 98, 195, 169}

RECURSIVE SeqsUpTo(_, _)
SeqsUpTo(S, n) ==
  IF n = 0 THEN {<<>>}
  ELSE LET shorter == SeqsUpTo(S, n - 1)
       IN shorter \cup {Append(q, x) : q \in {r \in shorter : Len(r) = n - 1}, x \in S}

\* The UTF-8 encoding of U+FFFD, the replacement character.
ReplacementChar == <<239, 191, 189>>

\* The inputs of a parse: every sequence of up to MaxLen of the bytes, and
\* the encoded replacement character.
Inputs == SeqsUpTo(Bytes, MaxLen) \cup {ReplacementChar}

(* ------------------------------------------------------------------------ *)
(* Values of the V stack.                                                    *)
(* ------------------------------------------------------------------------ *)

\* ϡmatchFailed, the sentinel of a failed match.
matchFailed == [t |-> "failed"]

\* The nil interface value.
Nil == [t |-> "nil"]

\* A []interface{} value; the nil slice is the list without items.
List(items) == [t |-> "list", items |-> items]

\* A []byte value, a slice of the input.
BytesVal(b) == [t |-> "bytes", b |-> b]

\* The value an action thunk returns.
UserVal(aIx) == [t |-> "user", id |-> aIx]

\* special values that may be pushed on the V stack, indexed from 0.
vSpecialValues == <<Nil, matchFailed, List(<<>>)>>

\* stack IDs, used in PUSH and POP's first argument
pstackID == 1
lstackID == 2
vstackID == 3
istackID == 4
astackID == 5

\* special V stack values
vValNil == 0
vValFailed == 1
vValEmpty == 2

(* ------------------------------------------------------------------------ *)
(* The parser: UTF-8 decoding, read, sliceFrom.                              *)
(* ------------------------------------------------------------------------ *)

\* utf8.RuneError
RuneError == 65533

\* '\n'
NewLine == 10

IsCont(b) == b >= 128 /\ b <= 191

\* utf8.DecodeRune on data[off:], off 0-based: the rune and its width.
\* One-, two- and three-byte forms; anything else is (RuneError, 1).
DecodeRune(data, off) ==
  IF off >= Len(data) THEN [rn |-> RuneError, n |-> 0]
  ELSE LET b0 == data[off + 1]
           has1 == off + 1 < Len(data) /\ IsCont(data[off + 2])
           has2 == has1 /\ off + 2 < Len(data) /\ IsCont(data[off + 3])
       IN  IF b0 < 128 THEN [rn |-> b0, n |-> 1]
           ELSE IF b0 >= 194 /\ b0 <= 223 THEN
             IF has1 THEN [rn |-> (b0 - 192) * 64 + (data[off + 2] - 128), n |-> 2]
             ELSE [rn |-> RuneError, n |-> 1]
           ELSE IF b0 >= 224 /\ b0 <= 239 THEN
             IF has2 /\ (b0 # 224 \/ data[off + 2] >= 160)
                     /\ (b0 # 237 \/ data[off + 2] <= 159)
             THEN [rn |-> (b0 - 224) * 4096 + (data[off + 2] - 128) * 64
                           + (data[off + 3] - 128), n |-> 3]
             ELSE [rn |-> RuneError, n |-> 1]
           ELSE [rn |-> RuneError, n |-> 1]

\* The savepoint Parse builds: position{line: 1}, no rune read yet.
InitPt == [line |-> 1, col |-> 0, offset |-> 0, rn |-> 0, w |-> 0]

Position(pt) == [line |-> pt.line, col |-> pt.col, offset |-> pt.offset]

\* read as it would be if a decoding error did not panic.
readRuneLenient(pt, off, d) ==
  [pt |-> [pt EXCEPT !.offset = off, !.rn = d.rn, !.w = d.n,
                     !.col = IF d.rn = RuneError THEN pt.col ELSE pt.col + 1],
   panic |-> FALSE]

\* read advances the parser to the next rune.  The result is the new
\* savepoint and whether read panicked with errInvalidEncoding.
\* d is the rune decoded at the new offset off.
readRune(pt, off, d) ==
  IF d.rn = RuneError
  THEN [pt |-> [pt EXCEPT !.offset = off, !.rn = d.rn, !.w = d.n],
        panic |-> d.n > 0]
  ELSE [pt |-> IF d.rn = NewLine
               THEN [pt EXCEPT !.offset = off, !.rn = d.rn, !.w = d.n,
                               !.line = pt.line + 1, !.col = 0]
               ELSE [pt EXCEPT !.offset = off, !.rn = d.rn, !.w = d.n,
                               !.col = pt.col + 1],
        panic |-> FALSE]

\* read as it would be if it always advanced by at least one byte.
readAtLeastOne(data, pt) ==
  readRune(pt, pt.offset + (IF pt.w = 0 THEN 1 ELSE pt.w),
           DecodeRune(data, pt.offset + (IF pt.w = 0 THEN 1 ELSE pt.w)))

read(data, pt) ==
  readRune(pt, pt.offset + pt.w, DecodeRune(data, pt.offset + pt.w))

\* sliceFrom gets the bytes from the start savepoint to the current position,
\* data[start.offset:pt.offset]; Go panics when the bounds are inverted.
sliceOutOfRange(start, pt) == start.offset > pt.offset

sliceFrom(data, start, pt) == SubSeq(data, start.offset + 1, pt.offset)

(* ------------------------------------------------------------------------ *)
(* Matchers.  A match returns the savepoint the reads left, whether the      *)
(* matcher matched, and whether a read panicked.                             *)
(* ------------------------------------------------------------------------ *)

\* unicode.ToLower on the Latin-1 range.
ToLower(rn) ==
  IF (rn >= 65 /\ rn <= 90) \/ (rn >= 192 /\ rn <= 222 /\ rn # 215)
  THEN rn + 32 ELSE rn

anyMatcher == [t |-> "any"]
stringMatcher(value, ignoreCase) ==
  [t |-> "string", value |-> value, ignoreCase |-> ignoreCase]
charClassMatcher(chars, ranges, ignoreCase, inverted) ==
  [t |-> "class", chars |-> chars, ranges |-> ranges,
   ignoreCase |-> ignoreCase, inverted |-> inverted]

\* ϡanyMatcher.match: any rune but the decode-error rune.
\* The outcome of a matcher that reads once: r is what the read did, ok
\* the test of the rune that was current before the read.
readThen(r, ok) == [pt |-> r.pt, ok |-> ~r.panic /\ ok, panic |-> r.panic]

anyMatch(data, pt) == readThen(read(data, pt), pt.rn # RuneError)

\* ϡstringMatcher.match: rune by rune, reading after each rune that agrees.
\* r is what the read after rune k did.
RECURSIVE stringMatch(_, _, _, _)
RECURSIVE stringMatchRead(_, _, _, _)
stringMatch(m, data, pt, k) ==
  IF k > Len(m.value) THEN [pt |-> pt, ok |-> TRUE, panic |-> FALSE]
  ELSE IF (IF m.ignoreCase THEN ToLower(pt.rn) ELSE pt.rn) # m.value[k]
       THEN [pt |-> pt, ok |-> FALSE, panic |-> FALSE]
       ELSE stringMatchRead(m, data, read(data, pt), k)

stringMatchRead(m, data, r, k) ==
  IF r.panic THEN [pt |-> r.pt, ok |-> FALSE, panic |-> TRUE]
  ELSE stringMatch(m, data, r.pt, k + 1)

\* The class holds rn: one of its chars, or inside one of its ranges
\* (ranges is a flat list of low, high pairs).
classHolds(m, rn) ==
  \/ \E j \in 1..Len(m.chars) : rn = m.chars[j]
  \/ \E j \in 1..(Len(m.ranges) \div 2) :
        rn >= m.ranges[2 * j - 1] /\ rn <= m.ranges[2 * j]

\* ϡcharClassMatcher.match: peek, read, then test the rune peeked.
charClassMatch(m, data, pt) ==
  readThen(read(data, pt),
           IF classHolds(m, IF m.ignoreCase THEN ToLower(pt.rn) ELSE pt.rn)
           THEN ~m.inverted ELSE m.inverted)

\* m.match(v.parser)
match(m, data, pt) ==
  CASE m.t = "any"    -> anyMatch(data, pt)
    [] m.t = "string" -> stringMatch(m, data, pt, 1)
    [] m.t = "class"  -> charClassMatch(m, data, pt)

RECURSIVE rangesString(_, _)
rangesString(ranges, j) ==
  IF 2 * j > Len(ranges) THEN <<>>
  ELSE <<ranges[2 * j - 1], 45, ranges[2 * j]>> \o rangesString(ranges, j + 1)

\* fmt.Sprintf("%s", m), the String method of the matcher, as a list of
\* runes: "." for any, the quoted value (and i) for a string, [^chars
\* lo-hi]i for a class.
matcherString(m) ==
  CASE m.t = "any"    -> <<46>>
    [] m.t = "string" -> <<34>> \o m.value \o <<34>>
                         \o (IF m.ignoreCase THEN <<105>> ELSE <<>>)
    [] m.t = "class"  -> <<91>> \o (IF m.inverted THEN <<94>> ELSE <<>>)
                         \o m.chars \o rangesString(m.ranges, 1) \o <<93>>
                         \o (IF m.ignoreCase THEN <<105>> ELSE <<>>)

(* ------------------------------------------------------------------------ *)
(* Instructions and the compilation schemes.                                 *)
(* ------------------------------------------------------------------------ *)

\* ϡinstr: an opcode with its arguments; ruleNmIx is set by withRules.
mustEncodeInstr(op, args) == <<[op |-> op, ruleNmIx |-> -1, args |-> args]>>

RECURSIVE combineInstrs(_)
combineInstrs(instrs) ==
  IF instrs = <<>> THEN <<>> ELSE Head(instrs) \o combineInstrs(Tail(instrs))

RECURSIVE combineInts(_)
combineInts(ints) ==
  IF ints = <<>> THEN <<>> ELSE Head(ints) \o combineInts(Tail(ints))

rpt(n, x) == [k \in 1..x |-> n]

\* The words a PUSH L of the children ls takes beyond the first, as
\* encodeSequence computes it: ceil((len(ls) - 2) / 4) past two children.
delta(ls) == IF Len(ls) > 2 THEN (Len(ls) - 2 + 3) \div 4 ELSE 0

encodeBootstrap(start) ==
  combineInstrs(<<
    mustEncodeInstr("push", <<istackID, start>>),
    mustEncodeInstr("push", <<astackID>>),
    mustEncodeInstr("call", <<>>),
    mustEncodeInstr("exit", <<>>) >>)

\* encodeMatcher as it would be if it pushed a value on V where it pushes
\* the savepoint on P.
encodeMatcherPushesV(mIx) ==
  combineInstrs(<<
    mustEncodeInstr("push", <<vstackID, vValNil>>),
    mustEncodeInstr("match", <<mIx>>),
    mustEncodeInstr("restoreIfF", <<>>),
    mustEncodeInstr("return", <<>>) >>)

encodeMatcher(mIx) ==
  combineInstrs(<<
    mustEncodeInstr("push", <<pstackID>>),
    mustEncodeInstr("match", <<mIx>>),
    mustEncodeInstr("restoreIfF", <<>>),
    mustEncodeInstr("return", <<>>) >>)

encodeSequence(start, ls) ==
  combineInstrs(<<
    mustEncodeInstr("push", <<pstackID>>),
    mustEncodeInstr("push", <<vstackID, vValFailed>>),
    mustEncodeInstr("push", <<lstackID>> \o ls),
    mustEncodeInstr("takeLOrJump", <<start + 8 + delta(ls)>>),
    mustEncodeInstr("call", <<>>),
    mustEncodeInstr("cumulOrF", <<>>),
    mustEncodeInstr("jumpIfF", <<start + 8 + delta(ls)>>),
    mustEncodeInstr("jump", <<start + 3 + delta(ls)>>),
    mustEncodeInstr("pop", <<lstackID>>),
    mustEncodeInstr("restoreIfF", <<>>),
    mustEncodeInstr("return", <<>>) >>)

encodeChoice(start, ls) ==
  combineInstrs(<<
    mustEncodeInstr("push", <<lstackID>> \o ls),
    mustEncodeInstr("takeLOrJump", <<start + 7>>),
    mustEncodeInstr("push", <<astackID>>),
    mustEncodeInstr("call", <<>>),
    mustEncodeInstr("pop", <<astackID>>),
    mustEncodeInstr("jumpIfT", <<start + 7>>),
    mustEncodeInstr("jump", <<start + 1>>),
    mustEncodeInstr("pop", <<lstackID>>),
    mustEncodeInstr("return", <<>>) >>)

encodeRepetition(start, vVal, ix) ==
  combineInstrs(<<
    mustEncodeInstr("push", <<vstackID, vVal>>),
    mustEncodeInstr("push", <<istackID, ix>>),
    mustEncodeInstr("push", <<astackID>>),
    mustEncodeInstr("call", <<>>),
    mustEncodeInstr("pop", <<astackID>>),
    mustEncodeInstr("popVJumpIfF", <<start + 8>>),
    mustEncodeInstr("cumulOrF", <<>>),
    mustEncodeInstr("jump", <<start + 1>>),
    mustEncodeInstr("return", <<>>) >>)

encodeOption(start, ix) ==
  combineInstrs(<<
    mustEncodeInstr("push", <<istackID, ix>>),
    mustEncodeInstr("push", <<astackID>>),
    mustEncodeInstr("call", <<>>),
    mustEncodeInstr("pop", <<astackID>>),
    mustEncodeInstr("popVJumpIfF", <<start + 6>>),
    mustEncodeInstr("return", <<>>),
    mustEncodeInstr("push", <<vstackID, vValNil>>),
    mustEncodeInstr("return", <<>>) >>)

encodeRuleRef(ix) ==
  combineInstrs(<<
    mustEncodeInstr("push", <<istackID, ix>>),
    mustEncodeInstr("push", <<astackID>>),
    mustEncodeInstr("call", <<>>),
    mustEncodeInstr("pop", <<astackID>>),
    mustEncodeInstr("return", <<>>) >>)

encodePredicate(and, ix) ==
  combineInstrs(<<
    mustEncodeInstr("push", <<pstackID>>),
    mustEncodeInstr("push", <<istackID, ix>>),
    mustEncodeInstr("push", <<astackID>>),
    mustEncodeInstr("call", <<>>),
    mustEncodeInstr("pop", <<astackID>>),
    mustEncodeInstr(IF and THEN "nilIfT" ELSE "nilIfF", <<>>),
    mustEncodeInstr("restore", <<>>),
    mustEncodeInstr("return", <<>>) >>)

encodeCodePredicate(and, bIx) ==
  combineInstrs(<<
    mustEncodeInstr("callB", <<bIx>>),
    mustEncodeInstr(IF and THEN "nilIfT" ELSE "nilIfF", <<>>),
    mustEncodeInstr("return", <<>>) >>)

encodeLabel(lblIx, ix) ==
  combineInstrs(<<
    mustEncodeInstr("push", <<istackID, ix>>),
    mustEncodeInstr("push", <<astackID>>),
    mustEncodeInstr("call", <<>>),
    mustEncodeInstr("pop", <<astackID>>),
    mustEncodeInstr("storeIfT", <<lblIx>>),
    mustEncodeInstr("return", <<>>) >>)

\* The action scheme as it would be if callA ran whatever the child left.
encodeActionAlways(start, actIx, ix) ==
  combineInstrs(<<
    mustEncodeInstr("push", <<pstackID>>),
    mustEncodeInstr("push", <<istackID, ix>>),
    mustEncodeInstr("call", <<>>),
    mustEncodeInstr("jumpIfF", <<start + 4>>),
    mustEncodeInstr("callA", <<actIx>>),
    mustEncodeInstr("return", <<>>),
    mustEncodeInstr("pop", <<pstackID>>),
    mustEncodeInstr("return", <<>>) >>)

encodeAction(start, actIx, ix) ==
  combineInstrs(<<
    mustEncodeInstr("push", <<pstackID>>),
    mustEncodeInstr("push", <<istackID, ix>>),
    mustEncodeInstr("call", <<>>),
    mustEncodeInstr("jumpIfF", <<start + 6>>),
    mustEncodeInstr("callA", <<actIx>>),
    mustEncodeInstr("return", <<>>),
    mustEncodeInstr("pop", <<pstackID>>),
    mustEncodeInstr("return", <<>>) >>)

\* The instruction vector with each instruction's rule-name index set from
\* the instruction-to-rule list (-1 for the bootstrap).
withRules(instrs, instrToRule) ==
  [k \in 1..Len(instrs) |-> [instrs[k] EXCEPT !.ruleNmIx = instrToRule[k]]]

(* ------------------------------------------------------------------------ *)
(* The programs, laid out as the generator lays them out: bootstrap first,   *)
(* then every expression after its children.  ms is the matcher table, ss    *)
(* the string table, nas and nbs the sizes of the two thunk tables.          *)
(* ------------------------------------------------------------------------ *)

litA == stringMatcher(<<97>>, FALSE)
litB == stringMatcher(<<98>>, FALSE)
litE == stringMatcher(<<233>>, FALSE)

program(instrs, instrToRule, ms, ss, nas, nbs) ==
  [instrs |-> withRules(combineInstrs(instrs), combineInts(instrToRule)),
   ms |-> ms, ss |-> ss, nas |-> nas, nbs |-> nbs]

\* A = 'a'
pgMatcher ==
  program(<<encodeBootstrap(4), encodeMatcher(0)>>,
          <<rpt(-1, 4), rpt(0, 4)>>, <<litA>>, <<"A">>, 0, 0)

\* A = 'a' 'b'
pgSequence ==
  program(<<encodeBootstrap(12), encodeMatcher(0), encodeMatcher(1),
            encodeSequence(12, <<4, 8>>)>>,
          <<rpt(-1, 4), rpt(0, 19)>>, <<litA, litB>>, <<"A">>, 0, 0)

\* A = 'a' / 'b'
pgChoice ==
  program(<<encodeBootstrap(12), encodeMatcher(0), encodeMatcher(1),
            encodeChoice(12, <<4, 8>>)>>,
          <<rpt(-1, 4), rpt(0, 17)>>, <<litA, litB>>, <<"A">>, 0, 0)

\* A = 'a'*
pgZeroOrMore ==
  program(<<encodeBootstrap(8), encodeMatcher(0),
            encodeRepetition(8, vValEmpty, 4)>>,
          <<rpt(-1, 4), rpt(0, 13)>>, <<litA>>, <<"A">>, 0, 0)

\* A = 'a'+
pgOneOrMore ==
  program(<<encodeBootstrap(8), encodeMatcher(0),
            encodeRepetition(8, vValFailed, 4)>>,
          <<rpt(-1, 4), rpt(0, 13)>>, <<litA>>, <<"A">>, 0, 0)

\* A = 'a'?
pgOption ==
  program(<<encodeBootstrap(8), encodeMatcher(0), encodeOption(8, 4)>>,
          <<rpt(-1, 4), rpt(0, 12)>>, <<litA>>, <<"A">>, 0, 0)

\* A = B ; B = 'a'
pgRuleRef ==
  program(<<encodeBootstrap(4), encodeRuleRef(9), encodeMatcher(0)>>,
          <<rpt(-1, 4), rpt(0, 5), rpt(1, 4)>>, <<litA>>, <<"A", "B">>, 0, 0)

\* A = &'a' .
pgAnd ==
  program(<<encodeBootstrap(20), encodeMatcher(0), encodePredicate(TRUE, 4),
            encodeMatcher(1), encodeSequence(20, <<8, 16>>)>>,
          <<rpt(-1, 4), rpt(0, 27)>>, <<litA, anyMatcher>>, <<"A">>, 0, 0)

\* A = !'a' .
pgNot ==
  program(<<encodeBootstrap(20), encodeMatcher(0), encodePredicate(FALSE, 4),
            encodeMatcher(1), encodeSequence(20, <<8, 16>>)>>,
          <<rpt(-1, 4), rpt(0, 27)>>, <<litA, anyMatcher>>, <<"A">>, 0, 0)

\* A = &{x} 'a' / !{y} 'b'
pgCodePredicate ==
  program(<<encodeBootstrap(40),
            encodeCodePredicate(TRUE, 0),      \* 4
            encodeMatcher(0),                  \* 7
            encodeSequence(11, <<4, 7>>),      \* 11
            encodeCodePredicate(FALSE, 1),     \* 22
            encodeMatcher(1),                  \* 25
            encodeSequence(29, <<22, 25>>),    \* 29
            encodeChoice(40, <<11, 29>>)>>,    \* 40
          <<rpt(-1, 4), rpt(0, 45)>>, <<litA, litB>>, <<"A">>, 0, 2)

\* A = l:'a' {x}
pgLabelAction ==
  program(<<encodeBootstrap(14),
            encodeMatcher(0),                  \* 4
            encodeLabel(1, 4),                 \* 8
            encodeAction(14, 0, 8)>>,          \* 14
          <<rpt(-1, 4), rpt(0, 18)>>, <<litA>>, <<"A", "l">>, 1, 0)

\* A = 'a' ('a' / 'b')
pgSeqChoice ==
  program(<<encodeBootstrap(25),
            encodeMatcher(0),                  \* 4
            encodeMatcher(0),                  \* 8
            encodeMatcher(1),                  \* 12
            encodeChoice(16, <<8, 12>>),       \* 16
            encodeSequence(25, <<4, 16>>)>>,   \* 25
          <<rpt(-1, 4), rpt(0, 32)>>, <<litA, litB>>, <<"A">>, 0, 0)

\* A = ('a' / 'b')*
pgStarChoice ==
  program(<<encodeBootstrap(21),
            encodeMatcher(0),                  \* 4
            encodeMatcher(1),                  \* 8
            encodeChoice(12, <<4, 8>>),        \* 12
            encodeRepetition(21, vValEmpty, 12)>>,
          <<rpt(-1, 4), rpt(0, 26)>>, <<litA, litB>>, <<"A">>, 0, 0)

\* A = ('a' / 'b')+
pgPlusChoice ==
  program(<<encodeBootstrap(21),
            encodeMatcher(0),                  \* 4
            encodeMatcher(1),                  \* 8
            encodeChoice(12, <<4, 8>>),        \* 12
            encodeRepetition(21, vValFailed, 12)>>,
          <<rpt(-1, 4), rpt(0, 26)>>, <<litA, litB>>, <<"A">>, 0, 0)

\* A = B 'b' / B ; B = 'a'
pgBacktrack ==
  program(<<encodeBootstrap(29),
            encodeRuleRef(38),                 \* 4
            encodeMatcher(1),                  \* 9
            encodeSequence(13, <<4, 9>>),      \* 13
            encodeRuleRef(38),                 \* 24
            encodeChoice(29, <<13, 24>>),      \* 29
            encodeMatcher(0)>>,                \* 38
          <<rpt(-1, 4), rpt(0, 34), rpt(1, 4)>>,
          <<litA, litB>>, <<"A", "B">>, 0, 0)

\* A = ('a' {x}) 'b' / 'a'
pgActionInSeq ==
  program(<<encodeBootstrap(35),
            encodeMatcher(0),                  \* 4
            encodeAction(8, 0, 4),             \* 8
            encodeMatcher(1),                  \* 16
            encodeSequence(20, <<8, 16>>),     \* 20
            encodeMatcher(0),                  \* 31
            encodeChoice(35, <<20, 31>>)>>,    \* 35
          <<rpt(-1, 4), rpt(0, 40)>>, <<litA, litB>>, <<"A">>, 1, 0)

\* A = 'a' / 'b' / 'é'
pgChoice3 ==
  program(<<encodeBootstrap(16), encodeMatcher(0), encodeMatcher(1),
            encodeMatcher(2), encodeChoice(16, <<4, 8, 12>>)>>,
          <<rpt(-1, 4), rpt(0, 21)>>, <<litA, litB, litE>>, <<"A">>, 0, 0)

\* A = !('a' / 'b') .
pgNotChoice ==
  program(<<encodeBootstrap(33),
            encodeMatcher(0),                  \* 4
            encodeMatcher(1),                  \* 8
            encodeChoice(12, <<4, 8>>),        \* 12
            encodePredicate(FALSE, 12),        \* 21
            encodeMatcher(2),                  \* 29
            encodeSequence(33, <<21, 29>>)>>,  \* 33
          <<rpt(-1, 4), rpt(0, 40)>>, <<litA, litB, anyMatcher>>, <<"A">>, 0, 0)

\* A = l:B 'b' / m:B ; B = n:'a' {x}
pgLabelBacktrack ==
  program(<<encodeBootstrap(41),
            encodeRuleRef(60),                 \* 4
            encodeLabel(2, 4),                 \* 9
            encodeMatcher(1),                  \* 15
            encodeSequence(19, <<9, 15>>),     \* 19
            encodeRuleRef(60),                 \* 30
            encodeLabel(3, 30),                \* 35
            encodeChoice(41, <<19, 35>>),      \* 41
            encodeMatcher(0),                  \* 50
            encodeLabel(4, 50),                \* 54
            encodeAction(60, 0, 54)>>,         \* 60
          <<rpt(-1, 4), rpt(0, 46), rpt(1, 18)>>,
          <<litA, litB>>, <<"A", "B", "l", "m", "n">>, 1, 0)

\* A = (!'b' 'a') (B !'b') ; B = 'b'
pgNotAfterRule ==
  program(<<encodeBootstrap(59),
            encodeMatcher(1),                  \* 4
            encodePredicate(FALSE, 4),         \* 8
            encodeMatcher(0),                  \* 16
            encodeSequence(20, <<8, 16>>),     \* 20
            encodeRuleRef(70),                 \* 31
            encodeMatcher(1),                  \* 36
            encodePredicate(FALSE, 36),        \* 40
            encodeSequence(48, <<31, 40>>),    \* 48
            encodeSequence(59, <<20, 48>>),    \* 59
            encodeMatcher(1)>>,                \* 70
          <<rpt(-1, 4), rpt(0, 66), rpt(1, 4)>>,
          <<litA, litB>>, <<"A", "B">>, 0, 0)

\* ϡtheProgram: the program a parse runs is one of these.
Programs ==
  <<pgMatcher, pgSequence, pgChoice, pgZeroOrMore, pgOneOrMore, pgOption,
    pgRuleRef, pgAnd, pgNot, pgCodePredicate, pgLabelAction, pgSeqChoice,
    pgStarChoice, pgPlusChoice, pgBacktrack, pgActionInSeq, pgChoice3,
    pgNotChoice, pgLabelBacktrack, pgNotAfterRule>>

(* ------------------------------------------------------------------------ *)
(* Errors.                                                                   *)
(* ------------------------------------------------------------------------ *)

errInvalidEncoding == [k |-> "invalid encoding"]
errNoMatch == [k |-> "no match found"]

\* The error a thunk returns, and the payload a thunk panics with.
thunkErr(kind, ix) == [k |-> "thunk error", thunk |-> <<kind, ix>>]
thunkPanic(kind, ix) == [k |-> "thunk panic", thunk |-> <<kind, ix>>]

\* A Go runtime panic (index out of range) or a panic of the dispatch loop.
runtimePanic(what) == [k |-> "runtime", what |-> what]

\* ϡffp.Error: expected want, got rn.
ffpMessage(ffp) == [k |-> "expected", want |-> ffp.want, rn |-> ffp.rn]

\* The message of the inner error; an ϡffp formats its want and rn only.
innerMessage(inner) == IF inner.k = "ffp" THEN ffpMessage(inner.ffp) ELSE inner

\* parserError.Error: the prefix, then the message of the inner error.
Error(pe) == <<pe.prefix, innerMessage(pe.Inner)>>

\* ϡdedupe removes duplicate error messages from the list, keeping the
\* first error of each message.
RECURSIVE dedupeFrom(_, _, _)
dedupeFrom(e, k, cleaned) ==
  IF k > Len(e) THEN cleaned
  ELSE IF \E j \in 1..Len(cleaned) : Error(cleaned[j]) = Error(e[k])
       THEN dedupeFrom(e, k + 1, cleaned)
       ELSE dedupeFrom(e, k + 1, Append(cleaned, e[k]))

dedupe(e) == dedupeFrom(e, 1, <<>>)

\* ϡerr as it would be if it returned the list as recorded.
errAsRecorded(e) == e

\* ϡerr returns the error list as an error, or nil (the empty list here) if
\* the list is empty.
err(e) == IF Len(e) = 0 THEN <<>> ELSE dedupe(e)

(* ------------------------------------------------------------------------ *)
(* The VM.                                                                   *)
(* ------------------------------------------------------------------------ *)

\* Parse: the parser and the vm it builds, before the options are applied.
Parse(pgIx, b) ==
  [st |-> "new", filename |-> "", pg |-> Programs[pgIx], data |-> b, pt |-> InitPt,
   debug |-> FALSE, memoize |-> FALSE, recover |-> TRUE,
   pc |-> 0, cur |-> [pos |-> Position(InitPt), text |-> <<>>],
   p |-> <<>>, l |-> <<>>, v |-> <<>>, i |-> <<>>, a |-> [sp |-> 0, ar |-> <<>>],
   memo |-> {},
   ffp |-> [pos |-> Position(InitPt), ruleNmIx |-> 0, rn |-> 0, want |-> <<>>],
   matchCnt |-> 0, callCnt |-> 0, actionCnt |-> 0, codePredCnt |-> 0,
   errs |-> <<>>, ret |-> Nil, res |-> [val |-> Nil, err |-> <<>>]]

\* The Options: Debug(b), Memoize(b), Recover(b).
Debug(b) == [opt |-> "debug", b |-> b]
Memoize(b) == [opt |-> "memoize", b |-> b]
Recover(b) == [opt |-> "recover", b |-> b]

\* Applying one Option as it would be if Memoize had been copied from Debug
\* and still set the debug flag.
applyOptionCopied(s, o) ==
  CASE o.opt = "debug"   -> [s EXCEPT !.debug = o.b]
    [] o.opt = "memoize" -> [s EXCEPT !.debug = o.b]
    [] o.opt = "recover" -> [s EXCEPT !.recover = o.b]

\* The Option that applying the Option returns: the previous setting of its
\* flag (old := v.debug; ...; return Debug(old)).
previousOption(s, o) ==
  CASE o.opt = "debug"   -> Debug(s.debug)
    [] o.opt = "memoize" -> Memoize(s.memoize)
    [] o.opt = "recover" -> Recover(s.recover)

\* Applying one Option sets its flag.
applyOption(s, o) ==
  CASE o.opt = "debug"   -> [s EXCEPT !.debug = o.b]
    [] o.opt = "memoize" -> [s EXCEPT !.memoize = o.b]
    [] o.opt = "recover" -> [s EXCEPT !.recover = o.b]

\* setOptions applies the options in sequence on the vm.
RECURSIVE setOptions(_, _)
setOptions(s, opts) ==
  IF opts = <<>> THEN s ELSE setOptions(applyOption(s, Head(opts)), Tail(opts))

\* v.pg, the program the vm runs.
Pg(s) == s.pg

\* ruleNameAt returns the name of the rule at the string index, "" outside.
ruleNameAt(pg, ix) == IF ix < 0 \/ ix >= Len(pg.ss) THEN "" ELSE pg.ss[ix + 1]

\* addErrAt adds the error at the specified position, for the rule name at
\* ruleNmIx.
addErrAt(s, e, ruleNmIx, pos) ==
  [s EXCEPT !.errs = Append(@, [Inner |-> e,
       prefix |-> [filename |-> s.filename, pos |-> pos,
                   rule |-> ruleNameAt(Pg(s), ruleNmIx)]])]

\* addErr adds the error at the current parser position, without rule name.
addErr(s, e) == addErrAt(s, e, -1, Position(s.pt))

\* The deferred handler as it would be if it recorded the payload at the
\* position of the current match, v.cur.pos.
panicAtCurPos(s, e) ==
  IF s.recover
  THEN LET ruleIx == IF s.pc > 0 /\ s.pc <= Len(Pg(s).instrs)
                     THEN Pg(s).instrs[s.pc].ruleNmIx ELSE -1
       IN  [addErrAt(s, e, ruleIx, s.cur.pos)
              EXCEPT !.st = "recovered", !.ret = Nil]
  ELSE [s EXCEPT !.st = "crashed", !.ret = e]

\* A panic as it would be if the handler recorded the payload and the loop
\* went on with Nil on V in place of the thunk's result.
panicResumes(s, e) ==
  IF s.recover
  THEN LET ruleIx == IF s.pc > 0 /\ s.pc <= Len(Pg(s).instrs)
                     THEN Pg(s).instrs[s.pc].ruleNmIx ELSE -1
       IN  [addErrAt(s, e, ruleIx, Position(s.pt)) EXCEPT !.v = Append(@, Nil)]
  ELSE [s EXCEPT !.st = "crashed", !.ret = e]

\* A panic inside dispatch.  With recover set the deferred handler records
\* the payload as an error at the current position, for the rule of the
\* instruction last fetched, and dispatch returns nil; otherwise the panic
\* leaves Parse.
panic(s, e) ==
  IF s.recover
  THEN LET ruleIx == IF s.pc > 0 /\ s.pc <= Len(Pg(s).instrs)
                     THEN Pg(s).instrs[s.pc].ruleNmIx ELSE -1
       IN  [addErrAt(s, e, ruleIx, Position(s.pt))
              EXCEPT !.st = "recovered", !.ret = Nil]
  ELSE [s EXCEPT !.st = "crashed", !.ret = e]

indexOutOfRange == runtimePanic("index out of range")

Top(stack) == stack[Len(stack)]
Pop(stack) == SubSeq(stack, 1, Len(stack) - 1)

\* The priming read of dispatch: r is what v.parser.read() did.
primed(s, r) ==
  IF r.panic THEN panic([s EXCEPT !.pt = r.pt], errInvalidEncoding)
  ELSE [s EXCEPT !.pt = r.pt, !.st = "running"]

\* run, up to the first fetch: fresh stacks, no FFP, and the priming read
\* of dispatch.
runStart(s) ==
  primed([s EXCEPT !.a = [sp |-> 0, ar |-> <<>>], !.i = <<>>, !.v = <<>>,
                   !.l = <<>>, !.p = <<>>, !.ffp.pos.offset = -1],
         read(s.data, s.pt))

\* fromMemo: the memoized result of the instruction ix at the offset of pt,
\* if any; a hit moves the parser to the stored savepoint and pushes the
\* stored value.
memoHit(s, ix, pt) == {m \in s.memo : m.ix = ix /\ m.offset = pt.offset}

\* fromMemo as it would be if a hit left the parser where it was.
fromMemoKeepsPt(s, ix, pt) ==
  LET result == CHOOSE m \in memoHit(s, ix, pt) : TRUE
  IN  [s EXCEPT !.v = Append(@, result.v)]

fromMemo(s, ix, pt) ==
  LET result == CHOOSE m \in memoHit(s, ix, pt) : TRUE
  IN  [s EXCEPT !.pt = result.pt, !.v = Append(@, result.v)]

\* memoizeMatch stores the outcome of the match of instruction ix that
\* started at pt: the slice and the end savepoint, or the failure and pt.
memoizeMatch(s, ix, pt, ok) ==
  LET kept == {m \in s.memo : ~(m.ix = ix /\ m.offset = pt.offset)}
      new  == IF ok
              THEN [ix |-> ix, offset |-> pt.offset,
                    v |-> BytesVal(sliceFrom(s.data, pt, s.pt)), pt |-> s.pt]
              ELSE [ix |-> ix, offset |-> pt.offset, v |-> matchFailed, pt |-> pt]
  IN  [s EXCEPT !.memo = kept \cup {new}]

\* dumpSnapshot prints the instructions around pc.  It follows a call
\* instruction by popping and pushing back the top of I, so it panics when
\* I is empty there or when an index it reads lies outside the program.
RECURSIVE dumpPanics(_, _, _)
dumpPanics(s, ix, n) ==
  IF n = 0 THEN FALSE
  ELSE IF ix >= Len(Pg(s).instrs) THEN TRUE
  ELSE IF Pg(s).instrs[ix + 1].op = "call"
       THEN IF Len(s.i) = 0 THEN TRUE ELSE dumpPanics(s, Top(s.i), n - 1)
       ELSE IF ix + 1 >= Len(Pg(s).instrs) THEN FALSE
            ELSE dumpPanics(s, ix + 1, n - 1)

\* dumpSnapshot as it would be if it did not push back the index it pops.
dumpSnapshotPops(s) ==
  LET ix == IF s.pc - 1 > 0 THEN s.pc - 2 ELSE s.pc - 1
  IN  IF dumpPanics(s, ix, 5) THEN panic(s, indexOutOfRange)
      ELSE IF Len(s.i) > 0 THEN [s EXCEPT !.i = Pop(@)] ELSE s

dumpSnapshot(s) ==
  LET ix == IF s.pc - 1 > 0 THEN s.pc - 2 ELSE s.pc - 1
  IN  IF dumpPanics(s, ix, 5) THEN panic(s, indexOutOfRange) ELSE s

\* The debug dump that opens the call, callA and callB instructions.
debugDump(s) == IF s.debug THEN dumpSnapshot(s) ELSE s

(* The instructions.  Each operator is one case of the switch of dispatch,  *)
(* applied to the vm s whose pc already points past the instruction ins.    *)

opCall(s, ins) ==
  LET d == debugDump(s)
  IN  IF d.st # "running" THEN d
      ELSE IF Len(d.i) = 0 THEN panic(d, indexOutOfRange)
      ELSE [d EXCEPT !.i = Append(Pop(@), d.pc), !.pc = Top(d.i),
                     !.callCnt = @ + 1]

\* callA as it would be if an error returned by the thunk ended the parse.
opCallAStopsOnError(s, ins, o) ==
  LET d == debugDump(s)
  IN  IF d.st # "running" THEN d
      ELSE IF Len(d.v) = 0 THEN panic(d, indexOutOfRange)
      ELSE LET s1 == [d EXCEPT !.v = Pop(@)]
           IN  IF Len(s1.p) = 0 THEN panic(s1, indexOutOfRange)
               ELSE LET start == Top(s1.p)
                        s2 == [s1 EXCEPT !.p = Pop(@), !.cur.pos = Position(start)]
                    IN  IF sliceOutOfRange(start, s2.pt)
                        THEN panic(s2, runtimePanic("slice bounds out of range"))
                        ELSE LET s3 == [s2 EXCEPT !.cur.text = sliceFrom(s2.data, start, s2.pt)]
                             IN  IF ins.args[1] >= Pg(s).nas
                                 THEN panic(s3, runtimePanic("invalid callA argument"))
                                 ELSE IF o = "panic" THEN panic(s3, thunkPanic("a", ins.args[1]))
                                 ELSE LET s4 == IF o \in {"err", "valerr"}
                                                THEN addErrAt(s3, thunkErr("a", ins.args[1]),
                                                              ins.ruleNmIx, Position(start))
                                                ELSE s3
                                          val == IF o = "err" THEN Nil ELSE UserVal(ins.args[1])
                                      IN  IF o \in {"err", "valerr"}
                                          THEN [s4 EXCEPT !.st = "recovered", !.ret = Nil]
                                          ELSE [s4 EXCEPT !.v = Append(@, val),
                                                          !.actionCnt = @ + 1]

\* callA as it would be if current.pos were the position of the cursor.
opCallAAtCursor(s, ins, o) ==
  LET d == debugDump(s)
  IN  IF d.st # "running" THEN d
      ELSE IF Len(d.v) = 0 THEN panic(d, indexOutOfRange)
      ELSE LET s1 == [d EXCEPT !.v = Pop(@)]
           IN  IF Len(s1.p) = 0 THEN panic(s1, indexOutOfRange)
               ELSE LET start == Top(s1.p)
                        s2 == [s1 EXCEPT !.p = Pop(@), !.cur.pos = Position(s1.pt)]
                    IN  IF sliceOutOfRange(start, s2.pt)
                        THEN panic(s2, runtimePanic("slice bounds out of range"))
                        ELSE LET s3 == [s2 EXCEPT !.cur.text = sliceFrom(s2.data, start, s2.pt)]
                             IN  IF ins.args[1] >= Pg(s).nas
                                 THEN panic(s3, runtimePanic("invalid callA argument"))
                                 ELSE IF o = "panic" THEN panic(s3, thunkPanic("a", ins.args[1]))
                                 ELSE LET s4 == IF o \in {"err", "valerr"}
                                                THEN addErrAt(s3, thunkErr("a", ins.args[1]),
                                                              ins.ruleNmIx, Position(start))
                                                ELSE s3
                                          val == IF o = "err" THEN Nil ELSE UserVal(ins.args[1])
                                      IN  [s4 EXCEPT !.v = Append(@, val),
                                                     !.actionCnt = @ + 1]

\* o is what the action thunk does: "val" returns its value, "err" returns
\* nil and an error, "valerr" its value and an error, "panic" panics.
opCallA(s, ins, o) ==
  LET d == debugDump(s)
  IN  IF d.st # "running" THEN d
      ELSE IF Len(d.v) = 0 THEN panic(d, indexOutOfRange)
      ELSE LET s1 == [d EXCEPT !.v = Pop(@)]
           IN  IF Len(s1.p) = 0 THEN panic(s1, indexOutOfRange)
               ELSE LET start == Top(s1.p)
                        s2 == [s1 EXCEPT !.p = Pop(@), !.cur.pos = Position(start)]
                    IN  IF sliceOutOfRange(start, s2.pt)
                        THEN panic(s2, runtimePanic("slice bounds out of range"))
                        ELSE LET s3 == [s2 EXCEPT !.cur.text = sliceFrom(s2.data, start, s2.pt)]
                             IN  IF ins.args[1] >= Pg(s).nas
                                 THEN panic(s3, runtimePanic("invalid callA argument"))
                                 ELSE IF o = "panic" THEN panic(s3, thunkPanic("a", ins.args[1]))
                                 ELSE LET s4 == IF o \in {"err", "valerr"}
                                                THEN addErrAt(s3, thunkErr("a", ins.args[1]),
                                                              ins.ruleNmIx, Position(start))
                                                ELSE s3
                                          val == IF o = "err" THEN Nil ELSE UserVal(ins.args[1])
                                      IN  [s4 EXCEPT !.v = Append(@, val),
                                                     !.actionCnt = @ + 1]

\* o is what the predicate thunk does: "T" and "F" return the bool, "Terr"
\* and "Ferr" return it with an error, "panic" panics.
opCallB(s, ins, o) ==
  LET d == debugDump(s)
  IN  IF d.st # "running" THEN d
      ELSE LET s1 == [d EXCEPT !.cur = [pos |-> Position(d.pt), text |-> <<>>]]
           IN  IF ins.args[1] >= Pg(s).nbs
               THEN panic(s1, runtimePanic("invalid callB argument"))
               ELSE IF o = "panic" THEN panic(s1, thunkPanic("b", ins.args[1]))
               ELSE LET s2 == IF o \in {"Terr", "Ferr"}
                              THEN addErrAt(s1, thunkErr("b", ins.args[1]),
                                            ins.ruleNmIx, Position(s1.pt))
                              ELSE s1
                        val == o \in {"T", "Terr"}
                    IN  [s2 EXCEPT !.codePredCnt = @ + 1,
                                   !.v = Append(@, IF val THEN Nil ELSE matchFailed)]

opCumulOrF(s, ins) ==
  IF Len(s.v) < 2 THEN panic(s, indexOutOfRange)
  ELSE LET va == s.v[Len(s.v)]
           vb == s.v[Len(s.v) - 1]
           below == SubSeq(s.v, 1, Len(s.v) - 2)
       IN  IF va = matchFailed THEN [s EXCEPT !.v = Append(below, matchFailed)]
           ELSE IF vb.t = "list" THEN [s EXCEPT !.v = Append(below, List(Append(vb.items, va)))]
           ELSE IF vb.t = "failed" THEN [s EXCEPT !.v = Append(below, List(<<va>>))]
           ELSE panic([s EXCEPT !.v = below],
                      runtimePanic("invalid cumulOrF value type on the V stack"))

\* exit ends dispatch with the value popped from V.
opExit(s, ins) ==
  IF Len(s.v) = 0 THEN panic(s, indexOutOfRange)
  ELSE [s EXCEPT !.v = Pop(@), !.ret = Top(s.v), !.st = "exited"]

opJump(s, ins) == [s EXCEPT !.pc = ins.args[1]]

opJumpIfF(s, ins) ==
  IF Len(s.v) = 0 THEN panic(s, indexOutOfRange)
  ELSE IF Top(s.v) = matchFailed THEN [s EXCEPT !.pc = ins.args[1]] ELSE s

\* jumpIfT as it would be if it tested for MatchFailed.
opJumpIfTOnFailed(s, ins) ==
  IF Len(s.v) = 0 THEN panic(s, indexOutOfRange)
  ELSE IF Top(s.v) = matchFailed THEN [s EXCEPT !.pc = ins.args[1]] ELSE s

opJumpIfT(s, ins) ==
  IF Len(s.v) = 0 THEN panic(s, indexOutOfRange)
  ELSE IF Top(s.v) # matchFailed THEN [s EXCEPT !.pc = ins.args[1]] ELSE s

\* The FFP as it would be if a failure at the offset of the FFP replaced it.
recordFFPLatest(s, start, ruleNmIx, want) ==
  IF start.offset >= s.ffp.pos.offset
  THEN [s EXCEPT !.ffp = [pos |-> Position(start), rn |-> start.rn,
                          ruleNmIx |-> ruleNmIx, want |-> want]]
  ELSE s

\* The FFP as it would be if the comparison were the other way round.
recordFFPNearest(s, start, ruleNmIx, want) ==
  IF start.offset < s.ffp.pos.offset
  THEN [s EXCEPT !.ffp = [pos |-> Position(start), rn |-> start.rn,
                          ruleNmIx |-> ruleNmIx, want |-> want]]
  ELSE s

\* did not match, record ffp if this is the farthest failure
recordFFP(s, start, ruleNmIx, want) ==
  IF start.offset > s.ffp.pos.offset
  THEN [s EXCEPT !.ffp = [pos |-> Position(start), rn |-> start.rn,
                          ruleNmIx |-> ruleNmIx, want |-> want]]
  ELSE s

opMatch(s, ins) ==
  LET start == s.pt
  IN  IF s.memoize /\ memoHit(s, s.pc - 1, start) # {}
      THEN fromMemo(s, s.pc - 1, start)
      ELSE IF ins.args[1] >= Len(Pg(s).ms)
      THEN panic(s, runtimePanic("invalid match argument"))
      ELSE LET m  == Pg(s).ms[ins.args[1] + 1]
               r  == match(m, s.data, s.pt)
               s1 == [s EXCEPT !.pt = r.pt]
           IN  IF r.panic THEN panic(s1, errInvalidEncoding)
               ELSE LET s2 == IF s1.memoize THEN memoizeMatch(s1, s1.pc - 1, start, r.ok)
                              ELSE s1
                        s3 == [s2 EXCEPT !.matchCnt = @ + 1]
                    IN  IF r.ok
                        THEN [s3 EXCEPT !.v = Append(@, BytesVal(sliceFrom(s3.data, start, s3.pt)))]
                        ELSE LET s4 == recordFFP(s3, start, ins.ruleNmIx, matcherString(m))
                                 s5 == [s4 EXCEPT !.v = Append(@, matchFailed), !.pt = start]
                             IN  IF s5.debug THEN dumpSnapshot(s5) ELSE s5

opNilIfF(s, ins) ==
  IF Len(s.v) = 0 THEN panic(s, indexOutOfRange)
  ELSE [s EXCEPT !.v = Append(Pop(@), IF Top(s.v) = matchFailed THEN Nil ELSE matchFailed)]

opNilIfT(s, ins) ==
  IF Len(s.v) = 0 THEN panic(s, indexOutOfRange)
  ELSE [s EXCEPT !.v = Append(Pop(@), IF Top(s.v) # matchFailed THEN Nil ELSE matchFailed)]

\* ϡastack.pop only decrements sp, and the args set stays in ar; the other
\* stacks index their array.
\* ϡopPop as it would be if the A stack kept its frame.
opPopKeepsA(s, ins) ==
  CASE ins.args[1] = lstackID ->
         IF Len(s.l) = 0 THEN panic(s, indexOutOfRange) ELSE [s EXCEPT !.l = Pop(@)]
    [] ins.args[1] = pstackID ->
         IF Len(s.p) = 0 THEN panic(s, indexOutOfRange) ELSE [s EXCEPT !.p = Pop(@)]
    [] ins.args[1] = astackID -> s
    [] ins.args[1] = vstackID ->
         IF Len(s.v) = 0 THEN panic(s, indexOutOfRange) ELSE [s EXCEPT !.v = Pop(@)]
    [] OTHER -> panic(s, runtimePanic("invalid pop argument"))

opPop(s, ins) ==
  CASE ins.args[1] = lstackID ->
         IF Len(s.l) = 0 THEN panic(s, indexOutOfRange) ELSE [s EXCEPT !.l = Pop(@)]
    [] ins.args[1] = pstackID ->
         IF Len(s.p) = 0 THEN panic(s, indexOutOfRange) ELSE [s EXCEPT !.p = Pop(@)]
    [] ins.args[1] = astackID ->
         [s EXCEPT !.a.sp = @ - 1]
    [] ins.args[1] = vstackID ->
         IF Len(s.v) = 0 THEN panic(s, indexOutOfRange) ELSE [s EXCEPT !.v = Pop(@)]
    [] OTHER -> panic(s, runtimePanic("invalid pop argument"))

opPopVJumpIfF(s, ins) ==
  IF Len(s.v) = 0 THEN panic(s, indexOutOfRange)
  ELSE IF Top(s.v) = matchFailed THEN [s EXCEPT !.v = Pop(@), !.pc = ins.args[1]]
  ELSE s

\* push as it would be if ϡastack.push kept the args set found at ar[sp].
opPushStale(s, ins) ==
  CASE ins.args[1] = pstackID -> [s EXCEPT !.p = Append(@, s.pt)]
    [] ins.args[1] = istackID -> [s EXCEPT !.i = Append(@, ins.args[2])]
    [] ins.args[1] = vstackID ->
         IF ins.args[2] >= Len(vSpecialValues)
         THEN panic(s, runtimePanic("invalid push V stack argument"))
         ELSE [s EXCEPT !.v = Append(@, vSpecialValues[ins.args[2] + 1])]
    [] ins.args[1] = astackID ->
         IF s.a.sp < 0 THEN panic(s, indexOutOfRange)
         ELSE [s EXCEPT !.a = [sp |-> @.sp + 1,
                               ar |-> IF @.sp >= Len(@.ar) THEN Append(@.ar, {})
                                      ELSE @.ar]]
    [] ins.args[1] = lstackID -> [s EXCEPT !.l = Append(@, Tail(ins.args))]
    [] OTHER -> panic(s, runtimePanic("invalid push argument"))

\* ϡastack.push puts an empty args set at ar[sp], over the set a pop left
\* there, and appends it when ar ends at sp.
opPush(s, ins) ==
  CASE ins.args[1] = pstackID -> [s EXCEPT !.p = Append(@, s.pt)]
    [] ins.args[1] = istackID -> [s EXCEPT !.i = Append(@, ins.args[2])]
    [] ins.args[1] = vstackID ->
         IF ins.args[2] >= Len(vSpecialValues)
         THEN panic(s, runtimePanic("invalid push V stack argument"))
         ELSE [s EXCEPT !.v = Append(@, vSpecialValues[ins.args[2] + 1])]
    [] ins.args[1] = astackID ->
         IF s.a.sp < 0 THEN panic(s, indexOutOfRange)
         ELSE [s EXCEPT !.a = [sp |-> @.sp + 1,
                               ar |-> IF @.sp >= Len(@.ar) THEN Append(@.ar, {})
                                      ELSE [@.ar EXCEPT ![s.a.sp + 1] = {}]]]
    [] ins.args[1] = lstackID -> [s EXCEPT !.l = Append(@, Tail(ins.args))]
    [] OTHER -> panic(s, runtimePanic("invalid push argument"))

\* restore as it would be if it popped P without moving the parser.
opRestoreKeepsPt(s, ins) ==
  IF Len(s.p) = 0 THEN panic(s, indexOutOfRange)
  ELSE [s EXCEPT !.p = Pop(@)]

opRestore(s, ins) ==
  IF Len(s.p) = 0 THEN panic(s, indexOutOfRange)
  ELSE [s EXCEPT !.p = Pop(@), !.pt = Top(s.p)]

\* ϡopRestoreIfF as it would be if it popped P only when it restores.
opRestoreIfFPeeks(s, ins) ==
  IF Len(s.p) = 0 THEN panic(s, indexOutOfRange)
  ELSE IF Len(s.v) = 0 THEN panic(s, indexOutOfRange)
  ELSE IF Top(s.v) = matchFailed THEN [s EXCEPT !.p = Pop(@), !.pt = Top(s.p)] ELSE s

opRestoreIfF(s, ins) ==
  IF Len(s.p) = 0 THEN panic(s, indexOutOfRange)
  ELSE LET s1 == [s EXCEPT !.p = Pop(@)]
       IN  IF Len(s1.v) = 0 THEN panic(s1, indexOutOfRange)
           ELSE IF Top(s1.v) = matchFailed THEN [s1 EXCEPT !.pt = Top(s.p)] ELSE s1

opReturn(s, ins) ==
  IF Len(s.i) = 0 THEN panic(s, indexOutOfRange)
  ELSE [s EXCEPT !.i = Pop(@), !.pc = Top(s.i)]

\* The args set on top of A with lbl bound to val.
store(frame, lbl, val) ==
  {b \in frame : b.lbl # lbl} \cup {[lbl |-> lbl, val |-> val]}

opStoreIfT(s, ins) ==
  IF Len(s.v) = 0 THEN panic(s, indexOutOfRange)
  ELSE IF Top(s.v) = matchFailed THEN s
  ELSE IF ins.args[1] >= Len(Pg(s).ss)
       THEN panic(s, runtimePanic("invalid storeIfT argument"))
  ELSE IF s.a.sp < 1 THEN panic(s, indexOutOfRange)
  ELSE [s EXCEPT !.a.ar[s.a.sp] = store(@, Pg(s).ss[ins.args[1] + 1], Top(s.v))]

\* ϡlstack.take removes the first index of the list on top of L.
\* ϡopTakeLOrJump as it would be if take removed the index from the argument
\* list of the push L instruction, the list the L stack entry is a slice of.
opTakeLOrJumpInPlace(s, ins) ==
  IF Len(s.l) = 0 THEN panic(s, indexOutOfRange)
  ELSE IF Top(s.l) = <<>> THEN [s EXCEPT !.pc = ins.args[1]]
  ELSE [s EXCEPT !.l = Append(Pop(@), Tail(Top(s.l))),
                 !.i = Append(@, Head(Top(s.l))),
                 !.pg.instrs[s.pc - 1].args =
                     <<lstackID>> \o SelectSeq(Tail(@), LAMBDA k : k # Head(Top(s.l)))]

opTakeLOrJump(s, ins) ==
  IF Len(s.l) = 0 THEN panic(s, indexOutOfRange)
  ELSE IF Top(s.l) = <<>> THEN [s EXCEPT !.pc = ins.args[1]]
  ELSE [s EXCEPT !.l = Append(Pop(@), Tail(Top(s.l))),
                 !.i = Append(@, Head(Top(s.l)))]

\* ϡffp.err: the FFP as an error if one has been recorded.
ffpRecorded(ffp) == ffp.pos.offset >= 0
ffpErr(ffp) == [k |-> "ffp", ffp |-> ffp]

\* run as it would be if it returned nil whenever errors were recorded.
runEndNilOnErrors(s) ==
  LET failed == s.ret = matchFailed
      s1 == IF failed /\ Len(s.errs) = 0
            THEN IF ffpRecorded(s.ffp)
                 THEN addErrAt(s, ffpErr(s.ffp), s.ffp.ruleNmIx, s.ffp.pos)
                 ELSE addErr(s, errNoMatch)
            ELSE s
  IN  [s1 EXCEPT !.st = "done",
                 !.res = [val |-> IF failed \/ Len(s1.errs) > 0 THEN Nil ELSE s.ret,
                          err |-> err(s1.errs)]]

\* run as it would be if it did not make sure of an error on a failed match.
runEndSilent(s) ==
  [s EXCEPT !.st = "done",
            !.res = [val |-> IF s.ret = matchFailed THEN Nil ELSE s.ret,
                     err |-> err(s.errs)]]

\* run as it would be if a match that leaves input unconsumed were a failed
\* match.
runEndAtEOF(s) ==
  LET failed == s.ret = matchFailed \/ s.pt.offset < Len(s.data)
      s1 == IF failed /\ Len(s.errs) = 0
            THEN IF ffpRecorded(s.ffp)
                 THEN addErrAt(s, ffpErr(s.ffp), s.ffp.ruleNmIx, s.ffp.pos)
                 ELSE addErr(s, errNoMatch)
            ELSE s
  IN  [s1 EXCEPT !.st = "done",
                 !.res = [val |-> IF failed THEN Nil ELSE s.ret,
                          err |-> err(s1.errs)]]

\* run as it would be if it added the error of a failed match to the errors
\* already recorded.
runEndAddsAlways(s) ==
  LET failed == s.ret = matchFailed
      s1 == IF failed
            THEN IF ffpRecorded(s.ffp)
                 THEN addErrAt(s, ffpErr(s.ffp), s.ffp.ruleNmIx, s.ffp.pos)
                 ELSE addErr(s, errNoMatch)
            ELSE s
  IN  [s1 EXCEPT !.st = "done",
                 !.res = [val |-> IF failed THEN Nil ELSE s.ret,
                          err |-> err(s1.errs)]]

\* run, after dispatch returned ret: a failed match becomes a nil result
\* and an error is made sure of; the errors are returned deduplicated.
runEnd(s) ==
  LET failed == s.ret = matchFailed
      s1 == IF failed /\ Len(s.errs) = 0
            THEN IF ffpRecorded(s.ffp)
                 THEN addErrAt(s, ffpErr(s.ffp), s.ffp.ruleNmIx, s.ffp.pos)
                 ELSE addErr(s, errNoMatch)
            ELSE s
  IN  [s1 EXCEPT !.st = "done",
                 !.res = [val |-> IF failed THEN Nil ELSE s.ret,
                          err |-> err(s1.errs)]]

(* ------------------------------------------------------------------------ *)
(* The expression blocks of a program, read back from the schemes, and the   *)
(* record of the blocks a parse enters and leaves.                           *)
(* ------------------------------------------------------------------------ *)

\* The scheme of the block that starts at instruction e.
KindAt(pg, e) ==
  LET op(k)  == pg.instrs[e + k + 1].op
      arg(k) == pg.instrs[e + k + 1].args
  IN  CASE op(0) = "callB" -> IF op(1) = "nilIfT" THEN "andCode" ELSE "notCode"
        [] op(0) = "push" /\ arg(0)[1] = lstackID -> "choice"
        [] op(0) = "push" /\ arg(0)[1] = vstackID ->
             IF arg(0)[2] = vValEmpty THEN "zeroOrMore" ELSE "oneOrMore"
        [] op(0) = "push" /\ arg(0)[1] = pstackID ->
             (CASE op(1) = "match" -> "matcher"
                [] op(1) = "push" /\ arg(1)[1] = vstackID -> "sequence"
                [] op(1) = "push" /\ arg(1)[1] = istackID ->
                     IF op(2) = "call" THEN "action"
                     ELSE IF op(5) = "nilIfT" THEN "and" ELSE "not")
        [] op(0) = "push" /\ arg(0)[1] = istackID ->
             (CASE op(4) = "popVJumpIfF" -> "option"
                [] op(4) = "storeIfT" -> "label"
                [] op(4) = "return" -> "ruleRef")

\* The children a sequence or choice block pushes on L.
KidsAt(pg, e) ==
  CASE KindAt(pg, e) = "choice"   -> Tail(pg.instrs[e + 1].args)
    [] KindAt(pg, e) = "sequence" -> Tail(pg.instrs[e + 3].args)
    [] OTHER -> <<>>

NoRet == [entry |-> -1]
NoVal == [t |-> "none"]

TopOrNone(stack) == IF Len(stack) = 0 THEN NoVal ELSE Top(stack)

\* The args sets of A in scope: those below sp, innermost last.
scopes(a) == SubSeq(a.ar, 1, a.sp)

\* hist.frames: the blocks entered by a call and not yet left, innermost
\* last, each with the cursor, stack depths and scopes at its entry and the blocks
\* it called, with what each left on V.  hist.lastRet: the block that
\* returned last, with the cursor and top of V it returned with.
\* hist.exit: the value the exit instruction popped.  hist.fails: the
\* executions of a match instruction that pushed MatchFailed, in order, each
\* with the offset and rune it started at, its rule and its matcher.
\* hist.rules: the rule invocations that returned, each with the offset it
\* started at and whether it matched.
observe(s, s2, h) ==
  LET op == Pg(s).instrs[s.pc + 1].op
  IN  IF s2.st = "exited" THEN [h EXCEPT !.exit = s2.ret]
      ELSE IF s2.st # "running" THEN h
      ELSE IF op = "call"
      THEN [h EXCEPT !.frames = Append(@,
              [entry |-> s2.pc, pt |-> s.pt, v |-> Len(s.v), p |-> Len(s.p),
               l |-> Len(s.l), a |-> s.a.sp, as |-> scopes(s.a),
               i |-> Len(s.i) - 1,
               calls |-> <<>>])]
      ELSE IF op = "match"
      THEN IF Len(s2.v) = Len(s.v) + 1 /\ Top(s2.v) = matchFailed
           THEN [h EXCEPT !.fails = Append(@,
                   [offset |-> s.pt.offset, rn |-> s.pt.rn,
                    ruleNmIx |-> Pg(s).instrs[s.pc + 1].ruleNmIx,
                    want |-> matcherString(Pg(s).ms[Pg(s).instrs[s.pc + 1].args[1] + 1])])]
           ELSE h
      ELSE IF op = "return" /\ Len(h.frames) > 0
      THEN LET f    == Top(h.frames)
               rest == Pop(h.frames)
               done == [entry |-> f.entry, top |-> TopOrNone(s2.v), pt |-> s2.pt]
           IN  [frames |-> IF Len(rest) = 0 THEN rest
                           ELSE [rest EXCEPT ![Len(rest)].calls = Append(@, done)],
                exit |-> h.exit,
                fails |-> h.fails,
                rules |-> IF Len(rest) = 0 \/ KindAt(Pg(s), Top(rest).entry) = "ruleRef"
                          THEN h.rules \cup {[offset |-> f.pt.offset,
                                              ok |-> TopOrNone(s2.v) # matchFailed]}
                          ELSE h.rules,
                lastRet |-> [entry |-> f.entry, kind |-> KindAt(Pg(s), f.entry),
                             kids |-> KidsAt(Pg(s), f.entry),
                             pt0 |-> f.pt, pt1 |-> s2.pt,
                             top |-> TopOrNone(s2.v),
                             v0 |-> f.v, v1 |-> Len(s2.v),
                             p0 |-> f.p, p1 |-> Len(s2.p),
                             l0 |-> f.l, l1 |-> Len(s2.l),
                             a0 |-> f.a, a1 |-> s2.a.sp,
                             as0 |-> f.as, as1 |-> scopes(s2.a),
                             i0 |-> f.i, i1 |-> Len(s2.i),
                             calls |-> f.calls]]
      ELSE h

(* ------------------------------------------------------------------------ *)
(* The state machine.  vm is the ϡvm of the parse.  twin, when there is      *)
(* one, is a second ϡvm over the same program and input that differs in the  *)
(* option of the pair only and is given the same thunk results.              *)
(* ------------------------------------------------------------------------ *)

NoTwin == [st |-> "none"]

\* Nothing entered, failed or returned yet.
NoHist == [frames |-> <<>>, lastRet |-> NoRet, exit |-> NoVal, fails |-> <<>>, rules |-> {}]

\* The option lists a caller passes to Parse.
OptionLists ==
  {<<>>, <<Memoize(TRUE)>>, <<Recover(FALSE)>>, <<Debug(TRUE)>>,
   <<Memoize(TRUE), Recover(FALSE)>>, <<Debug(TRUE), Recover(FALSE)>>,
   <<Memoize(TRUE), Debug(TRUE)>>,
   <<Memoize(TRUE), Debug(TRUE), Recover(FALSE)>>,
   <<Debug(TRUE), Debug(FALSE)>>, <<Recover(FALSE), Memoize(TRUE), Recover(TRUE)>>}

\* What an action thunk and a predicate thunk may do when called.
AOutcomes == {"val", "err", "valerr", "panic"}
BOutcomes == {"T", "F", "Terr", "Ferr", "panic"}

Init ==
  /\ \E g \in 1..Len(Programs), b \in Inputs : vm = Parse(g, b)
  /\ hist = NoHist
  /\ twin = NoTwin
  /\ pair = "none"

InitMemo ==
  /\ \E g \in 1..Len(Programs), b \in Inputs : vm = Parse(g, b)
  /\ hist = NoHist
  /\ twin = vm
  /\ pair = "memoize"

InitDebug ==
  /\ \E g \in 1..Len(Programs), b \in Inputs : vm = Parse(g, b)
  /\ hist = NoHist
  /\ twin = vm
  /\ pair = "debug"

\* v.setOptions(opts).  Of a pair of parses, vm is the one with the option
\* of the pair off, and the twin is given the same options and that one on.
SetOptions ==
  /\ vm.st = "new"
  /\ \E opts \in OptionLists :
       /\ vm' = [setOptions(vm, opts) EXCEPT !.st = "ready"]
       /\ pair = "memoize" => ~vm'.memoize
       /\ pair = "debug" => ~vm'.debug
       /\ twin' = CASE pair = "memoize" ->
                         [setOptions(twin, opts \o <<Memoize(TRUE)>>) EXCEPT !.st = "ready"]
                    [] pair = "debug" ->
                         [setOptions(twin, opts \o <<Debug(TRUE)>>) EXCEPT !.st = "ready"]
                    [] OTHER -> twin
  /\ UNCHANGED <<hist, pair>>

\* run up to the loop of dispatch.
RunStart ==
  /\ vm.st = "ready"
  /\ vm' = runStart(vm)
  /\ twin' = IF twin.st = "ready" THEN runStart(twin) ELSE twin
  /\ UNCHANGED <<hist, pair>>

\* dispatch fetches the instruction at pc and increments pc before it
\* executes the opcode.
Fetch(s) == Pg(s).instrs[s.pc + 1]
Advance(s) == [s EXCEPT !.pc = @ + 1]

Running(s) == s.st = "running" /\ s.pc < Len(Pg(s).instrs)

\* One turn of the dispatch loop on the opcode op: vm becomes nvm, and the
\* twin at the same opcode becomes ntwin.
Exec(op, nvm, ntwin) ==
  /\ Running(vm)
  /\ Fetch(vm).op = op
  /\ vm' = nvm
  /\ hist' = observe(vm, nvm, hist)
  /\ twin' = IF Running(twin) /\ Fetch(twin).op = op THEN ntwin ELSE twin
  /\ UNCHANGED pair

Call ==
  Exec("call", opCall(Advance(vm), Fetch(vm)), opCall(Advance(twin), Fetch(twin)))
CallA ==
  \E o \in AOutcomes :
    Exec("callA", opCallA(Advance(vm), Fetch(vm), o),
                  opCallA(Advance(twin), Fetch(twin), o))
CallB ==
  \E o \in BOutcomes :
    Exec("callB", opCallB(Advance(vm), Fetch(vm), o),
                  opCallB(Advance(twin), Fetch(twin), o))
CumulOrF ==
  Exec("cumulOrF", opCumulOrF(Advance(vm), Fetch(vm)),
                   opCumulOrF(Advance(twin), Fetch(twin)))
Exit ==
  Exec("exit", opExit(Advance(vm), Fetch(vm)), opExit(Advance(twin), Fetch(twin)))
Jump ==
  Exec("jump", opJump(Advance(vm), Fetch(vm)), opJump(Advance(twin), Fetch(twin)))
JumpIfF ==
  Exec("jumpIfF", opJumpIfF(Advance(vm), Fetch(vm)),
                  opJumpIfF(Advance(twin), Fetch(twin)))
JumpIfT ==
  Exec("jumpIfT", opJumpIfT(Advance(vm), Fetch(vm)),
                  opJumpIfT(Advance(twin), Fetch(twin)))
Match ==
  Exec("match", opMatch(Advance(vm), Fetch(vm)), opMatch(Advance(twin), Fetch(twin)))
NilIfF ==
  Exec("nilIfF", opNilIfF(Advance(vm), Fetch(vm)),
                 opNilIfF(Advance(twin), Fetch(twin)))
NilIfT ==
  Exec("nilIfT", opNilIfT(Advance(vm), Fetch(vm)),
                 opNilIfT(Advance(twin), Fetch(twin)))
PopStack ==
  Exec("pop", opPop(Advance(vm), Fetch(vm)), opPop(Advance(twin), Fetch(twin)))
PopVJumpIfF ==
  Exec("popVJumpIfF", opPopVJumpIfF(Advance(vm), Fetch(vm)),
                      opPopVJumpIfF(Advance(twin), Fetch(twin)))
PushStack ==
  Exec("push", opPush(Advance(vm), Fetch(vm)), opPush(Advance(twin), Fetch(twin)))
Restore ==
  Exec("restore", opRestore(Advance(vm), Fetch(vm)),
                  opRestore(Advance(twin), Fetch(twin)))
RestoreIfF ==
  Exec("restoreIfF", opRestoreIfF(Advance(vm), Fetch(vm)),
                     opRestoreIfF(Advance(twin), Fetch(twin)))
Return ==
  Exec("return", opReturn(Advance(vm), Fetch(vm)),
                 opReturn(Advance(twin), Fetch(twin)))
StoreIfT ==
  Exec("storeIfT", opStoreIfT(Advance(vm), Fetch(vm)),
                   opStoreIfT(Advance(twin), Fetch(twin)))
TakeLOrJump ==
  Exec("takeLOrJump", opTakeLOrJump(Advance(vm), Fetch(vm)),
                      opTakeLOrJump(Advance(twin), Fetch(twin)))

\* run after dispatch returned, by exit or by the recover handler.
RunEnd ==
  /\ vm.st \in {"exited", "recovered"}
  /\ vm' = runEnd(vm)
  /\ twin' = IF twin.st \in {"exited", "recovered"} THEN runEnd(twin) ELSE twin
  /\ UNCHANGED <<hist, pair>>

Next ==
  \/ SetOptions \/ RunStart \/ RunEnd
  \/ Call \/ CallA \/ CallB \/ CumulOrF \/ Exit \/ Jump \/ JumpIfF \/ JumpIfT
  \/ Match \/ NilIfF \/ NilIfT \/ PopStack \/ PopVJumpIfF \/ PushStack
  \/ Restore \/ RestoreIfF \/ Return \/ StoreIfT \/ TakeLOrJump

Spec == Init /\ [][Next]_vars

\* The parse of vm next to the parse of twin, which memoizes.
SpecMemo == InitMemo /\ [][Next]_vars

\* The parse of vm next to the parse of twin, which runs in debug mode.
SpecDebug == InitDebug /\ [][Next]_vars

(* ------------------------------------------------------------------------ *)
(* Two parses that share one program.  vm and twin are the ϡvm of two calls  *)
(* of Parse, each with its input and its stacks, whose v.pg is the same      *)
(* ϡprogram; their instructions interleave in any order.  hist.alone keeps,  *)
(* for each, the ϡvm of the same call of Parse with a program of its own.    *)
(* ------------------------------------------------------------------------ *)

InputsShared == SeqsUpTo(Bytes, MaxLenShared)

\* The programs two parses share: a sequence, a choice in a repetition, which
\* executes its push L once per iteration, and a program that calls a thunk.
ProgramsShared ==
  {g \in 1..Len(Programs) : Programs[g] \in {pgSequence, pgStarChoice, pgLabelAction}}

InitShared ==
  /\ \E g \in ProgramsShared, b1 \in InputsShared, b2 \in InputsShared :
       /\ vm = Parse(g, b1)
       /\ twin = Parse(g, b2)
  /\ hist = [alone |-> <<vm, twin>>]
  /\ pair = "shared"

\* The opcode switch of dispatch, on the instruction fetched.
dispatch(s, ins, o) ==
  CASE ins.op = "call" -> opCall(s, ins)
    [] ins.op = "callA" -> opCallA(s, ins, o)
    [] ins.op = "callB" -> opCallB(s, ins, o)
    [] ins.op = "cumulOrF" -> opCumulOrF(s, ins)
    [] ins.op = "exit" -> opExit(s, ins)
    [] ins.op = "jump" -> opJump(s, ins)
    [] ins.op = "jumpIfF" -> opJumpIfF(s, ins)
    [] ins.op = "jumpIfT" -> opJumpIfT(s, ins)
    [] ins.op = "match" -> opMatch(s, ins)
    [] ins.op = "nilIfF" -> opNilIfF(s, ins)
    [] ins.op = "nilIfT" -> opNilIfT(s, ins)
    [] ins.op = "pop" -> opPop(s, ins)
    [] ins.op = "popVJumpIfF" -> opPopVJumpIfF(s, ins)
    [] ins.op = "push" -> opPush(s, ins)
    [] ins.op = "restore" -> opRestore(s, ins)
    [] ins.op = "restoreIfF" -> opRestoreIfF(s, ins)
    [] ins.op = "return" -> opReturn(s, ins)
    [] ins.op = "storeIfT" -> opStoreIfT(s, ins)
    [] ins.op = "takeLOrJump" -> opTakeLOrJump(s, ins)

\* What the thunk called by the next instruction of the ϡvm may do.
ThunkOutcomes(s) ==
  IF ~Running(s) THEN {"val"}
  ELSE IF Fetch(s).op = "callA" THEN AOutcomes
  ELSE IF Fetch(s).op = "callB" THEN BOutcomes
  ELSE {"val"}

\* The next step of a call of Parse without options: setOptions, the start
\* of run, one turn of the dispatch loop, or the end of run.
parseStep(s, o) ==
  CASE s.st = "new" -> [setOptions(s, <<>>) EXCEPT !.st = "ready"]
    [] s.st = "ready" -> runStart(s)
    [] Running(s) -> dispatch(Advance(s), Fetch(s), o)
    [] s.st \in {"exited", "recovered"} -> runEnd(s)
    [] OTHER -> s

Stepping(s) == s.st \in {"new", "ready", "exited", "recovered"} \/ Running(s)

\* The parse of vm takes a step; the program it leaves is the program of
\* twin as well.
StepVm ==
  /\ Stepping(vm)
  /\ \E o \in ThunkOutcomes(vm) :
       /\ vm' = parseStep(vm, o)
       /\ hist' = [hist EXCEPT !.alone[1] = parseStep(@, o)]
  /\ twin' = [twin EXCEPT !.pg = vm'.pg]
  /\ UNCHANGED pair

\* The parse of twin takes a step; the program it leaves is the program of
\* vm as well.
StepTwin ==
  /\ Stepping(twin)
  /\ \E o \in ThunkOutcomes(twin) :
       /\ twin' = parseStep(twin, o)
       /\ hist' = [hist EXCEPT !.alone[2] = parseStep(@, o)]
  /\ vm' = [vm EXCEPT !.pg = twin'.pg]
  /\ UNCHANGED pair

NextShared == StepVm \/ StepTwin

SpecShared == InitShared /\ [][NextShared]_vars

(* ------------------------------------------------------------------------ *)
(* The recursive-descent parser the vm replaces (examples/json/json.go).     *)
(* The state of the parser is its savepoint pt and its errors; an            *)
(* expression returns a value, whether it matched, and the parser.           *)
(* ------------------------------------------------------------------------ *)

\* The grammars the programs are compiled from, in the order of Programs;
\* a grammar with code blocks is left out (no rules).
Grammars ==
  LET lit(c)     == [t |-> "lit", val |-> <<c>>, ignoreCase |-> FALSE]
      any        == [t |-> "any"]
      seq(es)    == [t |-> "seq", exprs |-> es]
      choice(as) == [t |-> "choice", alternatives |-> as]
      rep(t, e)  == [t |-> t, expr |-> e]
      ref(n)     == [t |-> "ruleRef", name |-> n]
      rule(n, e) == [name |-> n, expr |-> e]
      ab         == choice(<<lit(97), lit(98)>>)
      withCode   == <<>>
  IN  << <<rule("A", lit(97))>>,
         <<rule("A", seq(<<lit(97), lit(98)>>))>>,
         <<rule("A", ab)>>,
         <<rule("A", rep("zeroOrMore", lit(97)))>>,
         <<rule("A", rep("oneOrMore", lit(97)))>>,
         <<rule("A", rep("zeroOrOne", lit(97)))>>,
         <<rule("A", ref("B")), rule("B", lit(97))>>,
         <<rule("A", seq(<<rep("and", lit(97)), any>>))>>,
         <<rule("A", seq(<<rep("not", lit(97)), any>>))>>,
         withCode,
         withCode,
         <<rule("A", seq(<<lit(97), ab>>))>>,
         <<rule("A", rep("zeroOrMore", ab))>>,
         <<rule("A", rep("oneOrMore", ab))>>,
         <<rule("A", choice(<<seq(<<ref("B"), lit(98)>>), ref("B")>>)), rule("B", lit(97))>>,
         withCode,
         <<rule("A", choice(<<lit(97), lit(98), lit(233)>>))>>,
         <<rule("A", seq(<<rep("not", ab), any>>))>>,
         withCode,
         <<rule("A", seq(<<seq(<<rep("not", lit(98)), lit(97)>>),
                           seq(<<ref("B"), rep("not", lit(98))>>)>>)),
           rule("B", lit(98))>> >>

\* parser.read advances to the next rune; a decoding error is recorded and
\* the parse goes on.
parserRead(data, p) ==
  LET off == p.pt.offset + p.pt.w
      d   == DecodeRune(data, off)
  IN  [pt |-> [offset |-> off, rn |-> d.rn, w |-> d.n,
               line |-> IF d.rn = NewLine THEN p.pt.line + 1 ELSE p.pt.line,
               col |-> IF d.rn = NewLine THEN 0 ELSE p.pt.col + 1],
       errs |-> IF d.rn = RuneError /\ d.n = 1
                THEN Append(p.errs, errInvalidEncoding) ELSE p.errs]

\* parser.restore puts the parser back at the savepoint.
parserRestore(p, pt) == IF pt.offset = p.pt.offset THEN p ELSE [p EXCEPT !.pt = pt]

noMatch(p) == [v |-> Nil, ok |-> FALSE, p |-> p]

\* parseLitMatcher from rune k of the literal: rune by rune, restoring the
\* start on the first rune that differs.
RECURSIVE parseLitMatcher(_, _, _, _, _)
parseLitMatcher(data, lit, k, start, p) ==
  IF k > Len(lit.val)
  THEN [v |-> BytesVal(sliceFrom(data, start, p.pt)), ok |-> TRUE, p |-> p]
  ELSE IF (IF lit.ignoreCase THEN ToLower(p.pt.rn) ELSE p.pt.rn) # lit.val[k]
       THEN noMatch(parserRestore(p, start))
       ELSE parseLitMatcher(data, lit, k + 1, start, parserRead(data, p))

\* parseExpr, with the parse*Expr methods it switches to and parseRule.
\* rules is the grammar; the loops of the sequence, the choice and the
\* repetitions go on from the result r of the expression they just parsed;
\* a predicate restores the savepoint and returns nil.
RECURSIVE parseExpr(_, _, _, _)
RECURSIVE parseSeqExpr(_, _, _, _, _, _, _)
RECURSIVE parseChoiceExpr(_, _, _, _, _)
RECURSIVE parseRepeated(_, _, _, _, _)

\* parseSeqExpr, after expression k returned r.
parseSeqExpr(rules, data, exprs, k, vals, pt, r) ==
  IF ~r.ok THEN noMatch(parserRestore(r.p, pt))
  ELSE IF k = Len(exprs) THEN [v |-> List(Append(vals, r.v)), ok |-> TRUE, p |-> r.p]
  ELSE parseSeqExpr(rules, data, exprs, k + 1, Append(vals, r.v), pt,
                    parseExpr(rules, data, exprs[k + 1], r.p))

\* parseChoiceExpr, after alternative k returned r.
parseChoiceExpr(rules, data, alts, k, r) ==
  IF r.ok THEN r
  ELSE IF k = Len(alts) THEN noMatch(r.p)
  ELSE parseChoiceExpr(rules, data, alts, k + 1, parseExpr(rules, data, alts[k + 1], r.p))

\* parseZeroOrMoreExpr and parseOneOrMoreExpr, after the expression
\* returned r with vals collected before it.
parseRepeated(rules, data, e, vals, r) ==
  IF ~r.ok
  THEN IF e.t = "oneOrMore" /\ vals = <<>> THEN noMatch(r.p)
       ELSE [v |-> List(vals), ok |-> TRUE, p |-> r.p]
  ELSE parseRepeated(rules, data, e, Append(vals, r.v),
                     parseExpr(rules, data, e.expr, r.p))

parseExpr(rules, data, e, p) ==
  CASE e.t = "lit" -> parseLitMatcher(data, e, 1, p.pt, p)
    [] e.t = "any" ->
         IF p.pt.rn = RuneError THEN noMatch(p)
         ELSE [v |-> BytesVal(sliceFrom(data, p.pt, parserRead(data, p).pt)),
               ok |-> TRUE, p |-> parserRead(data, p)]
    [] e.t = "seq" ->
         IF e.exprs = <<>> THEN [v |-> List(<<>>), ok |-> TRUE, p |-> p]
         ELSE parseSeqExpr(rules, data, e.exprs, 1, <<>>, p.pt,
                           parseExpr(rules, data, e.exprs[1], p))
    [] e.t = "choice" ->
         IF e.alternatives = <<>> THEN noMatch(p)
         ELSE parseChoiceExpr(rules, data, e.alternatives, 1,
                              parseExpr(rules, data, e.alternatives[1], p))
    [] e.t \in {"zeroOrMore", "oneOrMore"} ->
         parseRepeated(rules, data, e, <<>>, parseExpr(rules, data, e.expr, p))
    [] e.t = "zeroOrOne" ->
         [parseExpr(rules, data, e.expr, p) EXCEPT !.ok = TRUE]
    [] e.t \in {"and", "not"} ->
         [v |-> Nil, ok |-> parseExpr(rules, data, e.expr, p).ok = (e.t = "and"),
          p |-> parserRestore(parseExpr(rules, data, e.expr, p).p, p.pt)]
    [] e.t = "ruleRef" ->
         IF \E j \in 1..Len(rules) : rules[j].name = e.name
         THEN parseExpr(rules, data,
                        rules[CHOOSE j \in 1..Len(rules) : rules[j].name = e.name].expr, p)
         ELSE noMatch([p EXCEPT !.errs = Append(@, [k |-> "undefined rule"])])

\* parser.parse: read the first rune and parse the start rule, rule 0; a
\* failed match without an error recorded gets errNoMatch.
parserParse(rules, data) ==
  LET r == parseExpr(rules, data, rules[1].expr,
                     parserRead(data, [pt |-> InitPt, errs |-> <<>>]))
  IN  [val |-> IF r.ok THEN r.v ELSE Nil, ok |-> r.ok, pt |-> r.p.pt,
       errs |-> IF ~r.ok /\ r.p.errs = <<>> THEN <<errNoMatch>> ELSE r.p.errs]

\* The grammar the program is compiled from, <<>> when it has code blocks.
GrammarOf(pg) == Grammars[CHOOSE g \in 1..Len(Programs) : Programs[g] = pg]

(* ------------------------------------------------------------------------ *)
(* Properties of the expression blocks.                                      *)
(* ------------------------------------------------------------------------ *)

lastRet == hist.lastRet

\* The block that returned last is of the kind.
Returned(kind) == lastRet.entry # -1 /\ lastRet.kind = kind

\* What the first n blocks called left on V, in order.
Tops(calls, n) == [k \in 1..n |-> calls[k].top]

\* The blocks called are the first children, in order.
CalledInOrder(r) ==
  /\ Len(r.calls) >= 1
  /\ Len(r.calls) <= Len(r.kids)
  /\ \A k \in 1..Len(r.calls) : r.calls[k].entry = r.kids[k]

\* C1: backtracking is total: a block that returns with MatchFailed on top
\* of V returns with the cursor (offset, line, column, rune, width) it was
\* entered with.
C1_BacktrackingTotal ==
  (lastRet.entry # -1 /\ lastRet.top = matchFailed) => lastRet.pt1 = lastRet.pt0

\* C2: ordered choice is left-biased: the alternatives are invoked in
\* declaration order, none is invoked after one that returned a value, and
\* the choice returns with the value of the first matching alternative on
\* top of V, or MatchFailed when none matches.
C2_ChoiceLeftBiased ==
  Returned("choice") =>
    /\ CalledInOrder(lastRet)
    /\ \A k \in 1..(Len(lastRet.calls) - 1) : lastRet.calls[k].top = matchFailed
    /\ IF lastRet.calls[Len(lastRet.calls)].top # matchFailed
       THEN lastRet.top = lastRet.calls[Len(lastRet.calls)].top
       ELSE Len(lastRet.calls) = Len(lastRet.kids) /\ lastRet.top = matchFailed

\* A choice returned with the value of its second alternative after the
\* first one failed.
C2_Witness ==
  /\ Returned("choice")
  /\ Len(lastRet.calls) = 2
  /\ lastRet.calls[1].top = matchFailed
  /\ lastRet.top # matchFailed
  /\ lastRet.top = lastRet.calls[2].top

\* C3: a sequence of n children whose children all match returns with the
\* list of the n child values in order on top of V; if child k fails no
\* later child is invoked and the sequence returns with MatchFailed.
C3_SequenceValue ==
  Returned("sequence") =>
    /\ CalledInOrder(lastRet)
    /\ \A k \in 1..(Len(lastRet.calls) - 1) : lastRet.calls[k].top # matchFailed
    /\ IF lastRet.calls[Len(lastRet.calls)].top = matchFailed
       THEN lastRet.top = matchFailed
       ELSE /\ Len(lastRet.calls) = Len(lastRet.kids)
            /\ lastRet.top = List(Tops(lastRet.calls, Len(lastRet.kids)))

\* The attempts of a repetition stop at the first failure.
MaximalRun(r) ==
  /\ Len(r.calls) >= 1
  /\ \A k \in 1..(Len(r.calls) - 1) : r.calls[k].top # matchFailed
  /\ r.calls[Len(r.calls)].top = matchFailed

\* C4: zero-or-more never yields MatchFailed: it returns with the list of
\* the values of the maximal run of consecutive matches of its body on top
\* of V (the empty list if the first attempt fails) and with the cursor
\* just after the last match.
C4_ZeroOrMoreNeverFails ==
  Returned("zeroOrMore") =>
    /\ MaximalRun(lastRet)
    /\ lastRet.top = List(Tops(lastRet.calls, Len(lastRet.calls) - 1))
    /\ lastRet.pt1 = IF Len(lastRet.calls) = 1 THEN lastRet.pt0
                     ELSE lastRet.calls[Len(lastRet.calls) - 1].pt

\* C5: one-or-more yields MatchFailed if and only if the first attempt of
\* its body fails; otherwise it yields the non-empty list of the values of
\* all the consecutive matches, in order.
C5_OneOrMore ==
  Returned("oneOrMore") =>
    /\ MaximalRun(lastRet)
    /\ lastRet.top = IF Len(lastRet.calls) = 1 THEN matchFailed
                     ELSE List(Tops(lastRet.calls, Len(lastRet.calls) - 1))

\* C6: predicates never consume input: &E and !E return with the cursor
\* they were entered with, whether E matched or failed; &E leaves Nil on
\* top of V iff E matched, !E leaves Nil iff E failed, MatchFailed otherwise.
C6_PredicatesConsumeNothing ==
  /\ Returned("and") =>
       /\ Len(lastRet.calls) = 1
       /\ lastRet.pt1 = lastRet.pt0
       /\ lastRet.top = IF lastRet.calls[1].top # matchFailed THEN Nil
                        ELSE matchFailed
  /\ Returned("not") =>
       /\ Len(lastRet.calls) = 1
       /\ lastRet.pt1 = lastRet.pt0
       /\ lastRet.top = IF lastRet.calls[1].top = matchFailed THEN Nil
                        ELSE matchFailed

\* A predicate returned after its expression matched and moved the cursor.
C6_Witness ==
  /\ lastRet.entry # -1
  /\ lastRet.kind \in {"and", "not"}
  /\ lastRet.calls[1].top # matchFailed
  /\ lastRet.calls[1].pt.offset > lastRet.pt0.offset

(* ------------------------------------------------------------------------ *)
(* Properties of Parse.                                                      *)
(* ------------------------------------------------------------------------ *)

\* C7: memoization is transparent: the parse with memoize set and the
\* parse without it end the same way, with the same returned value, the
\* same error list, the same final cursor and the same FFP.
C7_MemoizeTransparent ==
  /\ vm.st \in {"done", "crashed"} =>
       /\ twin.st = vm.st
       /\ twin.ret = vm.ret
       /\ twin.res = vm.res
       /\ twin.pt = vm.pt
       /\ twin.ffp = vm.ffp
  /\ twin.st \in {"done", "crashed"} => vm.st = twin.st

\* Both parses returned a value and the memoizing one answered a match from
\* its table.
C7_Witness ==
  /\ vm.st = "done"
  /\ twin.st = "done"
  /\ vm.memoize # twin.memoize
  /\ vm.matchCnt # twin.matchCnt
  /\ vm.res.val # Nil

\* C8: when the start rule fails because a matcher does not match and no
\* thunk reported an error (the grammar A = 'a' on the input "b"), Parse
\* returns a nil value and an error list whose first error has errNoMatch
\* as its Inner cause.
C8_NoMatchInner ==
  (/\ vm.st = "done"
   /\ hist.exit = matchFailed
   /\ \A k \in 1..Len(vm.errs) : vm.errs[k].Inner.k # "thunk error") =>
    /\ vm.res.val = Nil
    /\ Len(vm.res.err) >= 1
    /\ vm.res.err[1].Inner = errNoMatch

\* The start rule matched: exit popped a value other than MatchFailed.
StartRuleMatched == vm.st = "done" /\ hist.exit \notin {NoVal, matchFailed}

\* C9 as stated: when the start rule matches but an error was recorded
\* during the parse, Parse returns a nil value with the non-empty error list.
C9_NilValueOnErrors ==
  (StartRuleMatched /\ Len(vm.errs) > 0) =>
    vm.res.val = Nil /\ Len(vm.res.err) >= 1

\* C9: when the start rule matches Parse returns the matched value, and
\* it returns it together with the non-empty error list when an error was
\* recorded during the parse, with no error when none was.
C9_ValueWithErrors ==
  StartRuleMatched =>
    /\ vm.res.val = hist.exit
    /\ Len(vm.res.err) >= 1 <=> Len(vm.errs) > 0

\* The start rule matched a value after a thunk returned an error.
C9_Witness ==
  /\ StartRuleMatched
  /\ hist.exit # Nil
  /\ Len(vm.errs) > 0
  /\ vm.res.val = hist.exit

\* C10: a failed parse never goes out silently: when the value exit pops
\* is MatchFailed, Parse returns a nil value and an error list with at
\* least one error.
C10_FailedParseHasError ==
  (vm.st = "done" /\ hist.exit = matchFailed) =>
    vm.res.val = Nil /\ Len(vm.res.err) >= 1

\* Parse returned after exit popped MatchFailed with no error recorded by
\* a thunk.
C10_Witness ==
  /\ vm.st = "done"
  /\ hist.exit = matchFailed
  /\ \A k \in 1..Len(vm.res.err) : vm.res.err[k].Inner.k \in {"ffp", "no match found"}

\* The start rule matched and left input bytes unconsumed: the cursor stands
\* on a rune before the end of the input.
TrailingInput == StartRuleMatched /\ vm.pt.offset < Len(vm.data)

\* C11 as stated: when the start rule matches only a proper prefix of the
\* input, in a grammar without !., the parse fails with a nil value and a
\* non-empty error list.
C11_TrailingInputFails ==
  TrailingInput => vm.res.val = Nil /\ Len(vm.res.err) >= 1

\* C11, amended: when the start rule matches only a proper prefix of the
\* input, in a grammar without !., the parse returns the start rule's value,
\* and the unconsumed bytes add no error: the error list holds only the
\* errors the thunks returned.
C11_TrailingInputIgnored ==
  TrailingInput =>
    /\ vm.res.val = hist.exit
    /\ vm.res.err = err(vm.errs)
    /\ \A k \in 1..Len(vm.res.err) : vm.res.err[k].Inner.k = "thunk error"

\* A = 'a' on "ab": the value "a" and no error, with "b" left unread.
C11_Witness ==
  /\ TrailingInput
  /\ vm.data = <<97, 98>>
  /\ vm.pt.offset = 1
  /\ vm.res = [val |-> BytesVal(<<97>>), err |-> <<>>]

\* The errors recorded for a panic of a thunk, by their index in v.errs.
ThunkPanics == {k \in 1..Len(vm.errs) : vm.errs[k].Inner.k = "thunk panic"}

\* C12 as stated: with recover set, after a thunk panicked the dispatch loop
\* goes on at the instruction after the call, and the later instructions up
\* to Exit are still executed.
C12_PanicContinues ==
  ThunkPanics # {} =>
    /\ vm.st # "recovered"
    /\ vm.st = "done" => hist.exit # NoVal

\* C12, amended: with recover set, when a thunk panics the payload is
\* recorded as an error at the current cursor position, for the rule of the
\* CallA or CallB instruction, and the dispatch loop ends there: dispatch
\* returns nil and no later instruction, Exit included, is executed.
C12_PanicEndsDispatch ==
  ThunkPanics # {} =>
    LET e == vm.errs[Len(vm.errs)]
        ins == Pg(vm).instrs[vm.pc]
    IN  /\ vm.recover
        /\ e.Inner.k = "thunk panic"
        /\ ins.op \in {"callA", "callB"}
        /\ e.Inner.thunk = <<IF ins.op = "callA" THEN "a" ELSE "b", ins.args[1]>>
        /\ e.prefix.pos = Position(vm.pt)
        /\ e.prefix.rule = ruleNameAt(Pg(vm), ins.ruleNmIx)
        /\ vm.st \in {"recovered", "done"}
        /\ vm.ret = Nil
        /\ hist.exit = NoVal

\* A = l:'a' {x} on "a": the action panics after 'a' was consumed, and the
\* error stands at offset 1 while the match started at offset 0.
C12_Witness ==
  /\ vm.st = "recovered"
  /\ ThunkPanics = {1}
  /\ vm.errs[1].Inner = thunkPanic("a", 0)
  /\ vm.errs[1].prefix.pos.offset = 1
  /\ vm.cur.pos.offset = 0

\* C13: with recover set, a panic of a thunk ends the parse: it is caught
\* once, no further instruction is executed (Exit never is), and Parse
\* returns a nil value and an error list that holds the panic payload as a
\* parserError after the errors recorded before it.
C13_PanicTerminatesParse ==
  (vm.st = "done" /\ vm.recover /\ ThunkPanics # {}) =>
    /\ ThunkPanics = {Len(vm.errs)}
    /\ hist.exit = NoVal
    /\ vm.res.val = Nil
    /\ vm.res.err # <<>>
    /\ vm.res.err[Len(vm.res.err)].Inner = vm.errs[Len(vm.errs)].Inner
    /\ \A k \in 1..Len(vm.errs) :
          \E j \in 1..Len(vm.res.err) : Error(vm.res.err[j]) = Error(vm.errs[k])

\* A = &{x} 'a' / !{y} 'b': x returns false and an error, then y panics;
\* Parse returns nil and both errors.
C13_Witness ==
  /\ vm.st = "done"
  /\ vm.recover
  /\ Len(vm.errs) = 2
  /\ vm.errs[1].Inner = thunkErr("b", 0)
  /\ vm.errs[2].Inner = thunkPanic("b", 1)
  /\ vm.res.val = Nil
  /\ Len(vm.res.err) = 2

\* The cursor stands on bytes that do not decode: read got RuneError with a
\* width above zero.
InvalidRead == vm.pt.rn = RuneError /\ vm.pt.w > 0

\* Dispatch ended by a panic, and the payload of that panic.
Aborted == vm.st \in {"recovered", "crashed"}
AbortCause == IF vm.recover THEN vm.errs[Len(vm.errs)].Inner ELSE vm.ret

\* C14: a read that decodes invalid UTF-8, the priming read included, aborts
\* the parse: no further instruction is executed, and with recover set Parse
\* returns nil and an error list with an element whose Inner is the invalid
\* encoding error; nothing but that and a panic of a thunk aborts a parse.
C14_InvalidEncodingAborts ==
  /\ InvalidRead =>
        /\ vm.st \in {"recovered", "crashed", "done"}
        /\ hist.exit = NoVal
        /\ AbortCause = errInvalidEncoding
        /\ (vm.st = "done") =>
              /\ vm.res.val = Nil
              /\ \E k \in 1..Len(vm.res.err) : vm.res.err[k].Inner = errInvalidEncoding
  /\ Aborted => AbortCause.k \in {"invalid encoding", "thunk panic"}

\* The matcher of 'a' reads the stray byte after "a": Parse returns nil and
\* the invalid encoding error.
C14_Witness ==
  /\ vm.st = "done"
  /\ InvalidRead
  /\ vm.data = <<97, 169>>
  /\ vm.pt.offset = 1
  /\ vm.matchCnt = 0
  /\ vm.res.val = Nil
  /\ vm.res.err[Len(vm.res.err)].Inner = errInvalidEncoding

\* The index in the recorded errors of the first error with the message of pe.
FirstRecorded(pe) ==
  CHOOSE k \in 1..Len(vm.errs) :
    /\ Error(vm.errs[k]) = Error(pe)
    /\ \A j \in 1..(k - 1) : Error(vm.errs[j]) # Error(pe)

\* C15: the error list Parse returns holds no two errors with the same
\* message, holds every distinct message that was recorded, in the order of
\* first occurrence, and deduplicating it again changes nothing.
C15_ErrorsDeduplicated ==
  vm.st = "done" =>
    LET out == vm.res.err
    IN  /\ \A j, k \in 1..Len(out) : Error(out[j]) = Error(out[k]) => j = k
        /\ \A k \in 1..Len(vm.errs) :
              \E j \in 1..Len(out) : Error(out[j]) = Error(vm.errs[k])
        /\ \A j \in 1..Len(out) :
              /\ \E k \in 1..Len(vm.errs) : Error(vm.errs[k]) = Error(out[j])
              /\ out[j] = vm.errs[FirstRecorded(out[j])]
        /\ \A j, k \in 1..Len(out) :
              j < k => FirstRecorded(out[j]) < FirstRecorded(out[k])
        /\ dedupe(out) = out

\* A = l:B 'b' / m:B ; B = n:'a' {x} on "a": both alternatives run the action
\* at offset 0 and it returns the same error twice; Parse returns it once.
C15_Witness ==
  /\ vm.st = "done"
  /\ Len(vm.errs) = 2
  /\ Error(vm.errs[1]) = Error(vm.errs[2])
  /\ vm.res.err = <<vm.errs[1]>>

\* The step is a callA or callB whose thunk returned an error.
ThunkReturnedError ==
  /\ Running(vm)
  /\ Fetch(vm).op \in {"callA", "callB"}
  /\ vm'.errs # vm.errs
  /\ vm'.errs[Len(vm'.errs)].Inner.k = "thunk error"

\* C16: an error returned by a thunk does not stop the parse: exactly one
\* error is appended, the result of the thunk is still pushed on V (the
\* value of the action in place of its child's, or Nil or MatchFailed for a
\* predicate), and execution goes on with the next instruction.
C16_ThunkErrorContinues ==
  [][ThunkReturnedError =>
       LET ins == Fetch(vm)
           ix  == ins.args[1]
       IN  /\ \E pe \in {vm'.errs[Len(vm'.errs)]} :
                 /\ vm'.errs = Append(vm.errs, pe)
                 /\ pe.Inner = thunkErr(IF ins.op = "callA" THEN "a" ELSE "b", ix)
           /\ vm'.st = "running"
           /\ vm'.pc = vm.pc + 1
           /\ IF ins.op = "callA"
              THEN \E val \in {Nil, UserVal(ix)} : vm'.v = Append(Pop(vm.v), val)
              ELSE \E val \in {Nil, matchFailed} : vm'.v = Append(vm.v, val)]_vars

\* A = l:'a' {x} on "a": the action returned its value and an error, the
\* value is on V, and the parse is still running, at the return of the block.
C16_Witness ==
  /\ Running(vm)
  /\ vm.pc >= 1
  /\ Pg(vm).instrs[vm.pc].op = "callA"
  /\ Fetch(vm).op = "return"
  /\ vm.errs # <<>>
  /\ vm.errs[Len(vm.errs)].Inner = thunkErr("a", 0)
  /\ vm.v = <<UserVal(0)>>

\* The instruction executed last was a callA that returned: the action thunk
\* has just been invoked.
ActionInvoked ==
  /\ vm.st = "running"
  /\ vm.pc >= 1
  /\ Pg(vm).instrs[vm.pc].op = "callA"

\* The blocks called by the block that returned last which are actions that
\* matched, that is, whose thunk was invoked.
InvokedIn(r) ==
  {k \in 1..Len(r.calls) :
     /\ KindAt(Pg(vm), r.calls[k].entry) = "action"
     /\ r.calls[k].top # matchFailed}

\* C17 as stated: no action is invoked in a sequence or choice alternative
\* that fails afterwards.
C17_ActionOnlyOnSuccess ==
  (lastRet # NoRet /\ lastRet.kind = "sequence" /\ lastRet.top = matchFailed)
    => InvokedIn(lastRet) = {}

\* C17, amended: an action thunk is invoked exactly when the action's own
\* expression matched, whether or not the enclosing sequence or choice
\* alternative fails afterwards: callA runs only in an action block whose
\* child did not fail, and an action block whose child did not fail returns
\* a value of its thunk.
C17_ActionWhenChildMatched ==
  /\ ActionInvoked =>
        /\ hist.frames # <<>>
        /\ LET f == Top(hist.frames)
           IN  /\ KindAt(Pg(vm), f.entry) = "action"
               /\ Len(f.calls) = 1
               /\ f.calls[1].top # matchFailed
  /\ (lastRet # NoRet /\ lastRet.kind = "action") =>
        /\ Len(lastRet.calls) = 1
        /\ IF lastRet.calls[1].top = matchFailed
           THEN lastRet.top = matchFailed
           ELSE \E ix \in 0..(Pg(vm).nas - 1) : lastRet.top \in {Nil, UserVal(ix)}

\* A = ('a' {x}) 'b' / 'a' on "a": the action ran on 'a', then 'b' failed
\* and the sequence returned MatchFailed.
C17_Witness ==
  /\ lastRet # NoRet
  /\ lastRet.kind = "sequence"
  /\ lastRet.top = matchFailed
  /\ InvokedIn(lastRet) = {1}
  /\ lastRet.calls[1].top = UserVal(0)
  /\ vm.actionCnt = 1

\* The step is a callA whose thunk returned.
CallAReturned ==
  /\ Running(vm)
  /\ Fetch(vm).op = "callA"
  /\ vm'.st = "running"

\* C18: an action replaces its child's value.  callA is executed only when
\* the child of the action matched; it pops the child's value and pushes the
\* value the thunk returned, so the depth of V is unchanged; the savepoint it
\* pops from P is the one pushed at the entry of the same action block, so
\* current.pos is the position where the action's expression started and
\* current.text is the input from that offset to the offset of the cursor.
C18_ActionReplacesValue ==
  [][CallAReturned =>
       /\ hist.frames # <<>>
       /\ LET f == Top(hist.frames)
          IN  /\ KindAt(Pg(vm), f.entry) = "action"
              /\ vm.v # <<>>
              /\ Top(vm.v) # matchFailed
              /\ \E val \in {Nil, UserVal(Fetch(vm).args[1])} :
                    vm'.v = Append(Pop(vm.v), val)
              /\ Len(vm.p) = f.p + 1
              /\ Top(vm.p) = f.pt
              /\ vm'.p = Pop(vm.p)
              /\ vm'.pt = vm.pt
              /\ vm'.cur.pos = Position(f.pt)
              /\ vm'.cur.text = SubSeq(vm.data, f.pt.offset + 1, vm.pt.offset)]_vars

\* A = l:'a' {x} on "a": after callA, current.pos is offset 0, current.text
\* is "a", the cursor is at offset 1 and the value of x stands for "a" on V.
C18_Witness ==
  /\ ActionInvoked
  /\ vm.errs = <<>>
  /\ vm.cur = [pos |-> [line |-> 1, col |-> 1, offset |-> 0], text |-> <<97>>]
  /\ vm.pt.offset = 1
  /\ vm.v = <<UserVal(0)>>
  /\ vm.p = <<>>

\* The instruction executed last pushed an args set on A.
PushedA ==
  /\ vm.st = "running"
  /\ vm.pc >= 1
  /\ Pg(vm).instrs[vm.pc].op = "push"
  /\ Pg(vm).instrs[vm.pc].args[1] = astackID

\* The blocks that run their child under an args set of their own.
ScopedKinds ==
  {"choice", "zeroOrMore", "oneOrMore", "option", "and", "not", "ruleRef"}

\* The label a label block binds.
LabelAt(pg, e) == pg.ss[pg.instrs[e + 5].args[1] + 1]

\* C19: label scopes are isolated.  Every args set is empty when pushed on
\* A.  A choice, repetition, option, predicate or rule reference returns
\* with the scopes it was entered with, whatever was bound inside; a label
\* block adds to the enclosing set only its own label, bound to the value of
\* its child when that matched; every other block leaves the sets below the
\* current one as they were.
C19_LabelScopesIsolated ==
  /\ PushedA => vm.a.sp >= 1 /\ vm.a.ar[vm.a.sp] = {}
  /\ lastRet # NoRet =>
        LET r == lastRet
        IN  CASE r.kind \in ScopedKinds -> r.as1 = r.as0
              [] r.kind = "label" ->
                   /\ r.as0 # <<>>
                   /\ r.as1 = IF r.top = matchFailed THEN r.as0
                              ELSE [r.as0 EXCEPT ![Len(r.as0)] =
                                      store(@, LabelAt(Pg(vm), r.entry), r.top)]
              [] OTHER -> Len(r.as1) = Len(r.as0) /\ Pop(r.as1) = Pop(r.as0)

\* A = l:B 'b' / m:B ; B = n:'a' {x} on "a": the first alternative bound l
\* and failed on 'b'; the args set pushed for the second alternative, at the
\* same depth, is empty.
C19_Witness ==
  /\ PushedA
  /\ lastRet # NoRet
  /\ lastRet.kind = "sequence"
  /\ lastRet.top = matchFailed
  /\ Len(lastRet.as1) = 2
  /\ lastRet.as1[2] = {[lbl |-> "l", val |-> UserVal(0)]}
  /\ vm.a.sp = 2
  /\ vm.a.ar[2] = {}

\* A position with a 1-based line and a 1-based column.
OneBased(pos) == pos.line >= 1 /\ pos.col >= 1

\* C20: after the priming read, the position of the cursor, and with it
\* every position exposed as current.pos or in an error, has a line and a
\* column of at least 1, and its offset is the byte offset of the current
\* rune, from 0.
C20_PositionsOneBased ==
  vm.st \in {"running", "exited", "done"} =>
    /\ OneBased(Position(vm.pt))
    /\ vm.pt.offset \in 0..Len(vm.data)
    /\ vm.actionCnt + vm.codePredCnt > 0 => OneBased(vm.cur.pos)
    /\ \A k \in 1..Len(vm.errs) : OneBased(vm.errs[k].prefix.pos)

\* C21: debug mode is not observable.  Of two parses of the same program
\* and input, with the same options but debug and the same thunk results,
\* the one in debug mode is at every step in the state of the other: every
\* snapshot dump leaves pc, the cursor, the five stacks, the memo table,
\* the FFP and the errors as they were, and Parse returns the same value
\* and error list.
C21_DebugNotObservable ==
  pair = "debug" =>
    /\ vm.st # "new" => twin.debug /\ ~vm.debug
    /\ [twin EXCEPT !.debug = vm.debug] = vm

\* A parse in debug mode that dumped snapshots, at calls and at a failed
\* match, and returned the value and error of the parse without debug.
C21_Witness ==
  /\ pair = "debug"
  /\ twin.st = "done"
  /\ twin.debug
  /\ twin.callCnt > 1
  /\ twin.ffp.pos.offset >= 0
  /\ twin.res = vm.res
  /\ twin.res.val # Nil
  /\ twin.res.err # <<>>

\* The program of the ϡvm is one of the compiled programs, as compiled.
ProgramIntact(s) == \E g \in 1..Len(Programs) : s.pg = Programs[g]

\* The instruction the ϡvm is about to execute is a push on the L stack.
AtPushL(s) ==
  /\ Running(s)
  /\ Fetch(s).op = "push"
  /\ Fetch(s).args[1] = lstackID

\* C22: running the vm never modifies the program: of two parses that share
\* one program and interleave in any order, the program stays as compiled,
\* every execution of a push L leaves the complete list of children of the
\* instruction on top of the L stack, and each parse is at every step, and
\* so at its end, in the state of the same parse run alone.
C22_ProgramShared ==
  /\ [](pair = "shared" =>
          /\ ProgramIntact(vm)
          /\ twin.pg = vm.pg
          /\ vm = hist.alone[1]
          /\ twin = hist.alone[2])
  /\ [][/\ (AtPushL(vm) /\ vm'.l # vm.l) => Top(vm'.l) = Tail(Fetch(vm).args)
        /\ (AtPushL(twin) /\ twin'.l # twin.l) => Top(twin'.l) = Tail(Fetch(twin).args)]_vars

\* One parse of A = ('a' / 'b')* on "a" ended, having executed the push L of
\* the choice twice, while the other parse, on "b", is inside the choice
\* with one alternative taken from its L stack entry.
C22_Witness ==
  /\ pair = "shared"
  /\ vm.pg = pgStarChoice
  /\ vm.data = <<97>>
  /\ vm.st = "done"
  /\ vm.matchCnt = 3
  /\ twin.data = <<98>>
  /\ twin.st = "running"
  /\ Len(twin.l) = 1
  /\ Top(twin.l) = <<8>>

Flags(s) == [debug |-> s.debug, memoize |-> s.memoize, recover |-> s.recover]

\* The setting the last Option of the list for the flag gives it, or the
\* setting it has when the list holds no Option for the flag.
RECURSIVE LastSetting(_, _, _)
LastSetting(opts, flag, setting) ==
  IF opts = <<>> THEN setting
  ELSE IF opts[Len(opts)].opt = flag THEN opts[Len(opts)].b
  ELSE LastSetting(SubSeq(opts, 1, Len(opts) - 1), flag, setting)

\* C24: a Parse without options runs with debug false, memoize false and
\* recover true; an Option sets its own flag only, and applying the Option
\* it returns puts the three flags back; the options of a list are applied
\* in order, so the last Option for a flag wins.
C24_OptionsRestore ==
  /\ vm.st = "new" =>
        /\ Flags(vm) = [debug |-> FALSE, memoize |-> FALSE, recover |-> TRUE]
        /\ setOptions(vm, <<>>) = vm
        /\ \A opts \in OptionLists :
             Flags(setOptions(vm, opts)) =
               [f \in {"debug", "memoize", "recover"} |-> LastSetting(opts, f, vm[f])]
  /\ vm.st \in {"new", "ready"} =>
        \A o \in {Debug(TRUE), Debug(FALSE), Memoize(TRUE), Memoize(FALSE),
                  Recover(TRUE), Recover(FALSE)} :
          /\ applyOption(vm, o) = [vm EXCEPT ![o.opt] = o.b]
          /\ previousOption(vm, o).opt = o.opt
          /\ applyOption(applyOption(vm, o), previousOption(vm, o)) = vm

\* The options were applied and left every flag off its default.
C24_Witness ==
  /\ vm.st = "ready"
  /\ Flags(vm) = [debug |-> TRUE, memoize |-> TRUE, recover |-> FALSE]

\* C25: V emission contract: every block, of any kind, returns with V
\* exactly one deeper than it was entered with, whether it matched or not.
C25_VGrowsByOne ==
  lastRet.entry # -1 => lastRet.v1 = lastRet.v0 + 1

\* The exit instruction is the instruction dispatch fetches next.
AtExit == Running(vm) /\ Fetch(vm).op = "exit"

\* C26: when exit is fetched the V stack holds exactly one value and the
\* I, P, A and L stacks are empty.
C26_StacksBalancedAtExit ==
  AtExit =>
    /\ Len(vm.v) = 1
    /\ Len(vm.i) = 0
    /\ Len(vm.p) = 0
    /\ vm.a.sp = 0
    /\ Len(vm.l) = 0

\* No frame of A is between its push and the call it is pushed for, or
\* between the return of that call and its pop.
FramesSettled ==
  /\ Running(vm)
  /\ ~(Fetch(vm).op = "call" /\ vm.pc >= 1 /\ Pg(vm).instrs[vm.pc].op = "push"
                             /\ Pg(vm).instrs[vm.pc].args[1] = astackID)
  /\ ~(Fetch(vm).op = "pop" /\ Fetch(vm).args[1] = astackID)

\* The blocks of the kinds that have called a block which has not returned.
Calling(kinds) ==
  {k \in 1..(Len(hist.frames) - 1) : KindAt(Pg(vm), hist.frames[k].entry) \in kinds}

SavepointKinds == {"matcher", "sequence", "and", "not", "action"}

\* C28: a block that pushes a savepoint (a matcher, a sequence, a predicate,
\* an action) returns with P as deep as it was entered with, whether it
\* matched or not; any block returns with L as deep as it was entered with
\* and with I as deep as at its call less the return address it consumed.
C28_PILBalanced ==
  lastRet.entry # -1 =>
    /\ lastRet.kind \in SavepointKinds => lastRet.p1 = lastRet.p0
    /\ lastRet.l1 = lastRet.l0
    /\ lastRet.i1 = lastRet.i0

\* A sequence returned without a match after its first child matched, with
\* its savepoint popped and its list of children off L.
C28_Witness ==
  /\ Returned("sequence")
  /\ lastRet.top = matchFailed
  /\ Len(lastRet.calls) = 2
  /\ lastRet.pt1 = lastRet.pt0
  /\ lastRet.p1 = lastRet.p0
  /\ lastRet.l1 = lastRet.l0

\* run has reset the FFP and dispatch has started.
Dispatched == vm.st \notin {"new", "ready"}

\* The failed matches so far that started at the greatest offset.
Farthest ==
  {j \in 1..Len(hist.fails) :
     \A k \in 1..Len(hist.fails) : hist.fails[k].offset <= hist.fails[j].offset}

\* The step is a match instruction that pushes MatchFailed.
MatchFails ==
  /\ Running(vm)
  /\ Fetch(vm).op = "match"
  /\ Len(hist'.fails) = Len(hist.fails) + 1

\* C29: the offset of the FFP is the greatest offset at which a match
\* failed so far, and -1 while none has; its rule, rune and expected text are
\* those of the first match that failed at that offset; it changes only by
\* a match that fails at a strictly greater offset, so it never decreases.
C29_FFPIsFarthestFailure ==
  /\ [](Dispatched =>
          /\ hist.fails = <<>> => vm.ffp.pos.offset = -1
          /\ \A j \in Farthest :
               /\ vm.ffp.pos.offset = hist.fails[j].offset
               /\ (\A k \in Farthest : j <= k) =>
                     /\ vm.ffp.ruleNmIx = hist.fails[j].ruleNmIx
                     /\ vm.ffp.rn = hist.fails[j].rn
                     /\ vm.ffp.want = hist.fails[j].want)
  /\ [][(Dispatched /\ vm'.ffp # vm.ffp) =>
          /\ MatchFails
          /\ vm'.ffp.pos.offset > vm.ffp.pos.offset
          /\ vm'.ffp.pos.offset = vm.pt.offset]_vars

\* Two matches failed at offset 1 after one failed at offset 0, and the FFP
\* is the first of the two.
C29_Witness ==
  /\ Dispatched
  /\ Len(hist.fails) >= 3
  /\ hist.fails[1].offset = 0
  /\ Cardinality(Farthest) = 2
  /\ vm.ffp.pos.offset = 1
  /\ \E j \in Farthest, k \in Farthest :
       j < k /\ hist.fails[j].want # hist.fails[k].want /\ vm.ffp.want = hist.fails[j].want

\* The parse ended without a match of the start rule.
ParseFailed == vm.st = "done" /\ hist.exit = matchFailed

\* C30 as stated: when a parse fails with the FFP at offset k, every rule
\* invocation that started at an offset greater than k failed.
C30_RulesBeyondFFPFailed ==
  ParseFailed =>
    \A r \in hist.rules : r.offset > vm.ffp.pos.offset => ~r.ok

\* C30: when a parse fails with the FFP at offset k, no match failed at an
\* offset greater than k; a rule invocation that started beyond k may have
\* matched.
C30_NoFailureBeyondFFP ==
  ParseFailed =>
    \A j \in 1..Len(hist.fails) : hist.fails[j].offset <= vm.ffp.pos.offset

\* A = (!'b' 'a') (B !'b') ; B = 'b' on "abb": the parse failed with the
\* FFP at offset 0, where the first predicate tried 'b', and the invocation
\* of B at offset 1 matched.
C30_Witness ==
  /\ ParseFailed
  /\ vm.pg = pgNotAfterRule
  /\ vm.ffp.pos.offset = 0
  /\ [offset |-> 1, ok |-> TRUE] \in hist.rules
  /\ hist.fails # <<>>

\* C31: the byte offset of the cursor, of every savepoint on the P stack
\* and of every memoized end savepoint lies in 0..L for an input of L
\* bytes, and the rune under the cursor ends within the input; a read with
\* the cursor at L decodes zero bytes and leaves the offset at L.
C31_CursorWithinInput ==
  /\ vm.pt.offset \in 0..Len(vm.data)
  /\ vm.pt.offset + vm.pt.w <= Len(vm.data)
  /\ \A k \in 1..Len(vm.p) : vm.p[k].offset \in 0..Len(vm.data)
  /\ \A m \in vm.memo : m.pt.offset \in 0..Len(vm.data)
  /\ vm.pt.offset = Len(vm.data) =>
       /\ read(vm.data, vm.pt).pt.offset = Len(vm.data)
       /\ read(vm.data, vm.pt).pt.w = 0
       /\ ~read(vm.data, vm.pt).panic

\* A memoizing parse of at least two bytes read up to the end of input,
\* where a match was tried and failed, with a memoized match ending there.
C31_Witness ==
  /\ vm.memoize
  /\ Len(vm.data) >= 2
  /\ vm.pt.offset = Len(vm.data)
  /\ vm.pt.rn = RuneError
  /\ \E m \in vm.memo : m.v # matchFailed /\ m.pt.offset = Len(vm.data)
  /\ \E j \in 1..Len(hist.fails) : hist.fails[j].offset = Len(vm.data)

\* dispatch returned MatchFailed and run is about to translate it.
FailedAtRunEnd == vm.st = "exited" /\ vm.ret = matchFailed

AtCumulOrF == Running(vm) /\ Fetch(vm).op = "cumulOrF"

\* C35: while dispatch runs, pc is the index of an instruction of the
\* program; a parse aborts only on an invalid encoding or a panic of a
\* thunk, never on a pop or peek of an empty stack or on an argument out of
\* range, and the depth of A is never negative; cumulOrF finds two values on
\* V, and below a child value that matched a list or a sentinel.
C35_NoUnderflow ==
  pair = "none" =>
    /\ vm.st = "running" => vm.pc \in 0..(Len(vm.pg.instrs) - 1)
    /\ Aborted => AbortCause.k \in {"invalid encoding", "thunk panic"}
    /\ vm.st # "new" => vm.a.sp >= 0
    /\ AtCumulOrF =>
         /\ Len(vm.v) >= 2
         /\ Top(vm.v) # matchFailed =>
              vm.v[Len(vm.v) - 1].t \in {"list", "failed"}

\* cumulOrF is about to append a matched child to the list of a repetition
\* inside nested calls, with savepoints on P and a frame on A.
C35_Witness ==
  /\ AtCumulOrF
  /\ Top(vm.v) # matchFailed
  /\ vm.v[Len(vm.v) - 1].t = "list"
  /\ vm.v[Len(vm.v) - 1].items # <<>>
  /\ Len(vm.i) >= 1
  /\ Len(vm.p) >= 1
  /\ vm.a.sp >= 1

(* ------------------------------------------------------------------------ *)
(* Repetitions of a single matcher: the programs A = m* and A = m+ for each  *)
(* kind of matcher that is meant to consume input, on every input.           *)
(* ------------------------------------------------------------------------ *)

\* [a], [^b], [a-b]i and [^b]i
classA == charClassMatcher(<<97>>, <<>>, FALSE, FALSE)
classNotB == charClassMatcher(<<98>>, <<>>, FALSE, TRUE)
classABi == charClassMatcher(<<>>, <<97, 98>>, TRUE, FALSE)
classNotBi == charClassMatcher(<<98>>, <<>>, TRUE, TRUE)

RepeatMatchers ==
  {anyMatcher, litA, stringMatcher(<<97, 98>>, FALSE),
   classA, classNotB, classABi, classNotBi}

\* A = m* for vVal = ϡvValEmpty, A = m+ for vVal = ϡvValFailed
pgRepeat(m, vVal) ==
  program(<<encodeBootstrap(8), encodeMatcher(0),
            encodeRepetition(8, vVal, 4)>>,
          <<rpt(-1, 4), rpt(0, 13)>>, <<m>>, <<"A">>, 0, 0)

\* utf8.Valid: every rune of the input decodes, the encoded U+FFFD
\* included; only an invalid byte decodes to (RuneError, 1).
RECURSIVE validFrom(_, _)
validFrom(data, off) ==
  \/ off >= Len(data)
  \/ /\ ~(DecodeRune(data, off).rn = RuneError /\ DecodeRune(data, off).n = 1)
     /\ validFrom(data, off + DecodeRune(data, off).n)

Valid(data) == validFrom(data, 0)

\* The counters of the statistics and the lists on V are followed up to
\* MaxMatch: beyond it a counter stays where it is and a list loses its
\* oldest item.  dispatch reads neither a counter nor the items of a list.
MaxMatch == 6

followed(s) ==
  [s EXCEPT !.matchCnt = IF @ > MaxMatch THEN MaxMatch ELSE @,
            !.callCnt = IF @ > MaxMatch THEN MaxMatch ELSE @,
            !.v = [k \in 1..Len(@) |->
                     IF @[k].t = "list" /\ Len(@[k].items) > MaxMatch
                     THEN List(Tail(@[k].items)) ELSE @[k]]]

InitRepeat ==
  /\ \E m \in RepeatMatchers, vVal \in {vValEmpty, vValFailed},
        b \in SeqsUpTo(Bytes, MaxLen) :
       vm = [Parse(1, b) EXCEPT !.pg = pgRepeat(m, vVal)]
  /\ hist = NoHist
  /\ twin = NoTwin
  /\ pair = "repeat"

\* One step of Parse with the default options: the options, the start of
\* run, one turn of the dispatch loop, or the end of run.
StepRepeat ==
  /\ Stepping(vm)
  /\ vm' = followed(parseStep(vm, "val"))
  /\ UNCHANGED <<hist, twin, pair>>

NextRepeat == StepRepeat

\* The dispatch loop goes on as long as it can: nothing but exit or a panic
\* ends it.
SpecRepeat == InitRepeat /\ [][NextRepeat]_vars /\ WF_vars(NextRepeat)

\* The dispatch loop executes a match instruction that pushes a value other
\* than MatchFailed.
MatchSucceeds ==
  /\ Running(vm)
  /\ Fetch(vm).op = "match"
  /\ Len(vm'.v) = Len(vm.v) + 1
  /\ Top(vm'.v) # matchFailed

\* C36: no match instruction succeeds with the cursor at the end of input;
\* a match that succeeds advances the cursor by at least one byte and pushes
\* a slice that is not empty.
C36_NoMatchAtEOF ==
  [][(pair = "repeat" /\ MatchSucceeds) =>
       /\ vm.pt.offset < Len(vm.data)
       /\ vm'.pt.offset > vm.pt.offset
       /\ Top(vm'.v) # BytesVal(<<>>)]_vars

\* C37: on a valid UTF-8 input the dispatch loop of a repetition of a
\* matcher eventually executes exit.
C37_DispatchTerminates ==
  (pair = "repeat" /\ Valid(vm.data)) => <>(vm.st = "exited")

(* ------------------------------------------------------------------------ *)
(* The instruction words.  A ϡinstr is a 64-bit unsigned integer, kept here  *)
(* as its four 16-bit limbs, the most significant first:                     *)
(* oooooonn nnnnnnnn llllllll llllllll llllllll llllllll llllllll llllllll   *)
(* ------------------------------------------------------------------------ *)

iBits == 64
lBits == 16
nBits == 10
oBits == 6
lPerI == iBits \div lBits

lMask == 2^lBits - 1
nMask == 2^nBits - 1
oMask == 2^oBits - 1

\* ϡopMax, the number of opcodes.
opMax == 20

\* ϡinstr(x): the conversion of an integer to the unsigned 64-bit word, in
\* two's complement for a negative x.
instr(x) ==
  <<IF x < 0 THEN lMask ELSE 0, IF x < 0 THEN lMask ELSE 0,
    (x \div 2^lBits) % 2^lBits, x % 2^lBits>>

\* a | b on bits-wide numbers.
RECURSIVE bitOr(_, _, _)
bitOr(a, b, bits) ==
  IF bits = 0 THEN 0
  ELSE (IF a % 2 = 1 \/ b % 2 = 1 THEN 1 ELSE 0)
       + 2 * bitOr(a \div 2, b \div 2, bits - 1)

\* i | j, i << bits and i >> bits on words; the bits shifted out are lost.
or(i, j) == [k \in 1..lPerI |-> bitOr(i[k], j[k], lBits)]

shl(i, bits) ==
  LET limb(k) == IF k + bits \div lBits <= lPerI THEN i[k + bits \div lBits] ELSE 0
  IN  [k \in 1..lPerI |->
         (limb(k) * 2^(bits % lBits)
          + limb(k + 1) \div 2^(lBits - (bits % lBits))) % 2^lBits]

shr(i, bits) ==
  LET limb(k) == IF k - bits \div lBits >= 1 THEN i[k - bits \div lBits] ELSE 0
  IN  [k \in 1..lPerI |->
         (limb(k) \div 2^(bits % lBits)
          + (limb(k - 1) % 2^(bits % lBits)) * 2^(lBits - (bits % lBits))) % 2^lBits]

\* int(i & mask) for a mask of low bits no wider than a limb.
masked(i, mask) == i[lPerI] % (mask + 1)

\* decode decodes the instruction and returns the 5 parts: the opcode, the
\* number of L array values, and the 3 instruction indices.
decode(i) ==
  [ix2 |-> masked(i, lMask),
   ix1 |-> masked(shr(i, lBits), lMask),
   ix0 |-> masked(shr(shr(i, lBits), lBits), lMask),
   n   |-> masked(shr(shr(shr(i, lBits), lBits), lBits), nMask),
   op  |-> masked(shr(shr(shr(shr(i, lBits), lBits), lBits), nBits), oMask)]

\* decodeLs as it would be if the indices were taken from the low bits up.
decodeLsReversed(i) ==
  [ix0 |-> masked(i, lMask),
   ix1 |-> masked(shr(i, lBits), lMask),
   ix2 |-> masked(shr(shr(i, lBits), lBits), lMask),
   ix3 |-> masked(shr(shr(shr(i, lBits), lBits), lBits), lMask)]

\* decodeLs decodes the instruction as a list of L instruction indices.
decodeLs(i) ==
  [ix3 |-> masked(i, lMask),
   ix2 |-> masked(shr(i, lBits), lMask),
   ix1 |-> masked(shr(shr(i, lBits), lBits), lMask),
   ix0 |-> masked(shr(shr(shr(i, lBits), lBits), lBits), lMask)]

noError == "nil"

\* ϡencodeInstr up to its loop: the checks of the opcode and of the number
\* of arguments, and the first word with the opcode and the count.
encodeInstr(op, args) ==
  IF op >= opMax
  THEN [st |-> "encoded", is |-> <<>>, i |-> 0, err |-> "invalid op value"]
  ELSE IF Len(args) > nMask
  THEN [st |-> "encoded", is |-> <<>>, i |-> 0, err |-> "too many arguments"]
  ELSE IF Len(args) = 0
  THEN [st |-> "encoded", is |-> <<shl(instr(op), iBits - oBits)>>, i |-> 0,
        err |-> noError]
  ELSE [st |-> "loop",
        is |-> <<or(shl(instr(op), iBits - oBits),
                    shl(instr(Len(args)), iBits - oBits - nBits))>>,
        i |-> 0, err |-> noError]

\* One turn of the loop of ϡencodeInstr, on the argument arg of index i
\* (0-based) of n; off is the shift of the count.
encodeArg(is, arg, i, n, off) ==
  IF arg > lMask
  THEN [st |-> "encoded", is |-> <<>>, i |-> i, err |-> "argument value too big"]
  ELSE [st |-> IF i + 1 < n THEN "loop" ELSE "encoded",
        is |-> [(IF (i + 1) % lPerI = 0 THEN Append(is, instr(0)) ELSE is)
                  EXCEPT ![Len(is) + (IF (i + 1) % lPerI = 0 THEN 1 ELSE 0)] =
                    or(@, shl(instr(arg), off - ((i + 1) % lPerI) * lBits))],
        i |-> i + 1, err |-> noError]

\* The opcodes and the argument lists the encoder is given: every list of
\* up to MaxArgs values around the limits of an argument, and longer lists
\* around the limits of a word and of the count.
MaxArgs == 4
InstrOps == {0, 12, opMax - 1, opMax, oMask}
ArgValues == {-1, 0, 1, 258, lMask, lMask + 1}
LongArgs ==
  {[k \in 1..n |-> (k * 4099) % 2^lBits] : n \in {7, 8, 11, nMask, nMask + 1}}
    \cup {[k \in 1..nMask |-> IF k = nMask THEN -2 ELSE k]}
InstrArgs == SeqsUpTo(ArgValues, MaxArgs) \cup LongArgs

InitInstr ==
  /\ \E op \in InstrOps, args \in InstrArgs :
       vm = [st |-> "args", op |-> op, args |-> args]
  /\ hist = <<>>
  /\ twin = NoTwin
  /\ pair = "instr"

\* instrs, err := ϡencodeInstr(op, args...), up to the loop.
EncodeInstr ==
  /\ vm.st = "args"
  /\ vm' = [op |-> vm.op, args |-> vm.args] @@ encodeInstr(vm.op, vm.args)
  /\ UNCHANGED <<hist, twin, pair>>

\* for i, arg := range args
EncodeArg ==
  /\ vm.st = "loop"
  /\ vm' = [op |-> vm.op, args |-> vm.args]
             @@ encodeArg(vm.is, vm.args[vm.i + 1], vm.i, Len(vm.args),
                          iBits - oBits - nBits)
  /\ UNCHANGED <<hist, twin, pair>>

\* The first word of the instruction is decoded, and then each following
\* word in its turn; hist is the list of the words decoded.
Decode ==
  /\ vm.st = "encoded"
  /\ vm.err = noError
  /\ hist = <<>>
  /\ hist' = <<decode(vm.is[1])>>
  /\ UNCHANGED <<vm, twin, pair>>

DecodeLs ==
  /\ vm.st = "encoded"
  /\ Len(hist) >= 1
  /\ Len(hist) < Len(vm.is)
  /\ hist' = Append(hist, decodeLs(vm.is[Len(hist) + 1]))
  /\ UNCHANGED <<vm, twin, pair>>

NextInstr == EncodeInstr \/ EncodeArg \/ Decode \/ DecodeLs

SpecInstr == InitInstr /\ [][NextInstr]_vars

\* The encoder has returned.
Encoded == pair = "instr" /\ vm.st = "encoded"

\* The k-th argument of the instruction, from 1, and 0 where absent.
ArgOrZero(k) == IF k <= Len(vm.args) THEN vm.args[k] ELSE 0

\* C33 as stated: the encoder returns an error and no word exactly when
\* the opcode is not below ϡopMax, there are more than 1023 arguments or an
\* argument lies outside 0..65535; the first word of an accepted
\* instruction decodes to the opcode and the count that were given.
C33_EncodeRejectsOverflow ==
  Encoded =>
    /\ vm.err # noError <=>
         \/ vm.op >= opMax
         \/ Len(vm.args) > 1023
         \/ \E k \in 1..Len(vm.args) : vm.args[k] \notin 0..65535
    /\ vm.err # noError => vm.is = <<>>
    /\ Len(hist) >= 1 => hist[1].op = vm.op /\ hist[1].n = Len(vm.args)

\* The encoder was given valid values: an opcode, at most 1023 arguments,
\* each of 16 bits.
ValidInstr ==
  /\ vm.op < opMax
  /\ Len(vm.args) <= 1023
  /\ \A k \in 1..Len(vm.args) : vm.args[k] \in 0..65535

\* C34: on valid values the encoder succeeds with one word for up to three
\* arguments and 1 + ceil((n - 3) / 4) words beyond; decode of the first
\* word returns the opcode, the count and arguments 0..2, and decodeLs of
\* each following word the next four arguments in order, 0 where absent.
C34_InstrRoundTrip ==
  (Encoded /\ ValidInstr) =>
    /\ vm.err = noError
    /\ Len(vm.is) = IF Len(vm.args) <= 3 THEN 1
                    ELSE 1 + (Len(vm.args) - 3 + 3) \div 4
    /\ Len(hist) >= 1 =>
         hist[1] = [op |-> vm.op, n |-> Len(vm.args), ix0 |-> ArgOrZero(1),
                    ix1 |-> ArgOrZero(2), ix2 |-> ArgOrZero(3)]
    /\ \A j \in 2..Len(hist) :
         hist[j] = [ix0 |-> ArgOrZero(4 * j - 4), ix1 |-> ArgOrZero(4 * j - 3),
                    ix2 |-> ArgOrZero(4 * j - 2), ix3 |-> ArgOrZero(4 * j - 1)]

\* An instruction of 1023 arguments, the last word holding the last four,
\* was encoded into 256 words and every word decoded.
C34_Witness ==
  /\ Encoded
  /\ ValidInstr
  /\ Len(vm.args) = 1023
  /\ Len(vm.is) = 256
  /\ Len(hist) = 256
  /\ hist[256].ix3 = vm.args[1023]
  /\ hist[256].ix3 # 0

\* C38: a parse of valid UTF-8 input neither panics with
\* errInvalidEncoding nor records it as an error.
C38_InvalidEncodingOnlyOnInvalid ==
  (pair = "none" /\ Valid(vm.data)) =>
    /\ vm.ret # errInvalidEncoding
    /\ \A j \in 1..Len(vm.errs) : vm.errs[j].Inner # errInvalidEncoding

(* ------------------------------------------------------------------------ *)
(* ParseFile of the recursive parser.  An error value is the list of its     *)
(* errors, and the nil error the empty list.                                 *)
(* ------------------------------------------------------------------------ *)

\* The outcomes of os.Open, ioutil.ReadAll and f.Close: nil or an error.
ioError(what) == <<[k |-> what]>>
IOOutcomes(what) == {<<>>, ioError(what)}

\* ParseReader parses the data read from r, or returns the error of the
\* read; readErr is what ioutil.ReadAll returned.  The error of the parse
\* is the list of the errors it recorded, nil when there is none.
ParseReader(rules, data, readErr) ==
  IF readErr # <<>> THEN [i |-> Nil, err |-> readErr]
  ELSE [i |-> parserParse(rules, data).val,
        err |-> parserParse(rules, data).errs]

\* The grammars of the recursive parser.
GrammarsFile == {g \in 1..Len(Grammars) : Grammars[g] # <<>>}

InitFile ==
  /\ \E g \in GrammarsFile, b \in Inputs :
       vm = [st |-> "open", rules |-> Grammars[g], data |-> b,
             i |-> Nil, err |-> <<>>, closed |-> FALSE]
  /\ hist = [i |-> Nil, err |-> <<>>]
  /\ twin = NoTwin
  /\ pair = "file"

\* f, err := os.Open(filename); if err != nil { return nil, err }
ParseFileOpen ==
  /\ vm.st = "open"
  /\ \E openErr \in IOOutcomes("open") :
       vm' = IF openErr # <<>>
             THEN [vm EXCEPT !.st = "returned", !.err = openErr]
             ELSE [vm EXCEPT !.st = "opened"]
  /\ UNCHANGED <<hist, twin, pair>>

\* return ParseReader(filename, f, opts...): the results are set, and the
\* deferred function is still to run.  hist keeps what ParseReader returned.
ParseFileParse ==
  /\ vm.st = "opened"
  /\ \E readErr \in IOOutcomes("read") :
       /\ vm' = [vm EXCEPT !.st = "deferred",
                           !.i = ParseReader(vm.rules, vm.data, readErr).i,
                           !.err = ParseReader(vm.rules, vm.data, readErr).err]
       /\ hist' = ParseReader(vm.rules, vm.data, readErr)
  /\ UNCHANGED <<twin, pair>>

\* defer func() { err = f.Close() }()
ParseFileClose ==
  /\ vm.st = "deferred"
  /\ \E closeErr \in IOOutcomes("close") :
       vm' = [vm EXCEPT !.st = "returned", !.err = closeErr,
                        !.closed = closeErr = <<>>]
  /\ UNCHANGED <<hist, twin, pair>>

NextFile == ParseFileOpen \/ ParseFileParse \/ ParseFileClose

SpecFile == InitFile /\ [][NextFile]_vars

\* C39: ParseFile on a file that opened and closed without error returns
\* the value and the error that ParseReader returned on its contents.
C39_ParseFileReturnsParseError ==
  (pair = "file" /\ vm.st = "returned" /\ vm.closed) =>
    /\ vm.i = hist.i
    /\ vm.err = hist.err

====
